---- MODULE Spec2Model ----
(***************************************************************************)
(* useSqueel: a client (SqueelClientImpl) talks to a worker that owns one  *)
(* SQLite engine.  Requests travel as envelopes {id, req}, answers as      *)
(* envelopes {id, res}; the RPC class correlates them through its pending  *)
(* map.  The model follows the JavaScript event loop: a message handler    *)
(* runs to its first await, and a continuation whose awaited promise is    *)
(* already settled runs (as a microtask) before the next message is taken. *)
(***************************************************************************)
EXTENDS Integers, Sequences, FiniteSets, TLC

\* Number of client calls (query / exec / transaction) made in one run.
MaxCalls == 2
\* Number of tx.exec calls made in one run, over all transaction callbacks.
MaxStmts == 2
\* Number of migrations in the client's configuration.
MaxMigrations == 2
\* Number of times the page is loaded again over the same stored database.
MaxReloads == 1
\* Number of handlers registered through onInvalidate in one run.
MaxHandlers == 2
\* Number of other contexts attached to the same BroadcastChannel.
MaxPeers == 1
\* Number of writes another context makes to the shared database in one run.
MaxWrites == 2

CallIds == 1..MaxCalls
\* A run sends at most one request per call, and one more (a tx.query).
\* Subscriptions draw their query requests from the same ids and send no
\* more once the ids are used up.
Ids == 1..(MaxCalls + 1)

----------------------------------------------------------------------------
(* SQL texts used by the callers, and their lexical structure.             *)

InsOrder == "INSERT INTO Orders (id) VALUES (1)"
InsItemRb == "INSERT OR ROLLBACK INTO items (id) VALUES (1)"
Pragma == "PRAGMA user_version = 1"
SelectAll == "SELECT id FROM orders JOIN items"
SelectMissing == "SELECT id FROM customers"
DelOrder == "DELETE FROM orders WHERE id = 1"

WriteSql == {InsOrder, InsItemRb, Pragma}

\* The statements of applyMigrations and the up scripts of the migrations.
CreateLedger == "CREATE TABLE IF NOT EXISTS __use_squeel_migrations (id INTEGER PRIMARY KEY, applied_at TEXT NOT NULL)"
InsertLedger == "INSERT INTO __use_squeel_migrations (id, applied_at) VALUES (?, datetime('now'))"
CreateOrders == "CREATE TABLE orders (id INTEGER PRIMARY KEY)"
CreateItems == "CREATE TABLE items (id INTEGER PRIMARY KEY)"
CreateBoth == "CREATE TABLE items (id INTEGER PRIMARY KEY); CREATE TABLE orders (id INTEGER PRIMARY KEY)"

UpScripts == {CreateOrders, CreateItems, CreateBoth, InsItemRb}

MigrationIds == 1..MaxMigrations

HandlerIds == 1..MaxHandlers
Peers == 1..MaxPeers

\* The row of the ledger table that holds id.
LedgerRows == <<"__use_squeel_migrations:1", "__use_squeel_migrations:2",
                "__use_squeel_migrations:3", "__use_squeel_migrations:4">>
LedgerRow(id) == LedgerRows[id]

Rows == {"orders:1", "items:1"}

\* The words of each text, in order (what the regular expressions scan).
Words(sql) ==
  CASE sql = InsOrder -> <<"INSERT", "INTO", "Orders", "(", "id", ")", "VALUES", "(", "1", ")">>
    [] sql = InsItemRb -> <<"INSERT", "OR", "ROLLBACK", "INTO", "items", "(", "id", ")", "VALUES", "(", "1", ")">>
    [] sql = Pragma -> <<"PRAGMA", "user_version", "=", "1">>
    [] sql = SelectAll -> <<"SELECT", "id", "FROM", "orders", "JOIN", "items">>
    [] sql = SelectMissing -> <<"SELECT", "id", "FROM", "customers">>
    [] sql = DelOrder -> <<"DELETE", "FROM", "orders", "WHERE", "id", "=", "1">>
    [] OTHER -> <<>>

\* String.prototype.toLowerCase on the words above.
toLowerCase(w) ==
  CASE w = "Orders" -> "orders"
    [] w = "INSERT" -> "insert"
    [] w = "INTO" -> "into"
    [] w = "OR" -> "or"
    [] w = "ROLLBACK" -> "rollback"
    [] w = "VALUES" -> "values"
    [] w = "PRAGMA" -> "pragma"
    [] w = "SELECT" -> "select"
    [] w = "FROM" -> "from"
    [] w = "JOIN" -> "join"
    [] w = "DELETE" -> "delete"
    [] w = "WHERE" -> "where"
    [] w = "WITH" -> "with"
    [] w = "RECURSIVE" -> "recursive"
    [] w = "AS" -> "as"
    [] w = "UPDATE" -> "update"
    [] w = "SET" -> "set"
    [] w = "Recent" -> "recent"
    [] w = "AND" -> "and"
    [] w = "IN" -> "in"
    [] OTHER -> w

\* [a-z0-9_]+ under the i flag: the words that are identifiers.
IsIdent(w) == w \notin {"(", ")", "=", ",", "'", "--", "/*", "*/", "\n"}

TableKeywords == {"from", "join", "update", "into"}

\* The result of extractTables: null, or a non-empty set of names.
Null == [isNull |-> TRUE, tables |-> {}]
TableSet(s) == [isNull |-> FALSE, tables |-> s]

\* The position of the first t in w at or after i, 0 when there is none.
RECURSIVE IndexFrom(_, _, _)
IndexFrom(w, t, i) ==
  IF i > Len(w) THEN 0 ELSE IF w[i] = t THEN i ELSE IndexFrom(w, t, i + 1)

\* .replace(/--.*$/gm, ""): from each -- to the end of its line.
RECURSIVE stripLineComments(_)
stripLineComments(w) ==
  IF w = <<>> THEN <<>>
  ELSE IF Head(w) = "--"
  THEN LET n == IndexFrom(w, "\n", 1)
       IN IF n = 0 THEN <<>> ELSE stripLineComments(SubSeq(w, n, Len(w)))
  ELSE <<Head(w)>> \o stripLineComments(Tail(w))

\* .replace(/\/\*[\s\S]*?\*\//g, ""): from each /* to the next */.
RECURSIVE stripBlockComments(_)
stripBlockComments(w) ==
  IF w = <<>> THEN <<>>
  ELSE IF Head(w) = "/*" /\ IndexFrom(w, "*/", 2) # 0
  THEN stripBlockComments(SubSeq(w, IndexFrom(w, "*/", 2) + 1, Len(w)))
  ELSE <<Head(w)>> \o stripBlockComments(Tail(w))

\* .replace(/'[^']*'/g, "''"): each quote up to the next quote becomes ''.
RECURSIVE stripLiterals(_)
stripLiterals(w) ==
  IF w = <<>> THEN <<>>
  ELSE IF Head(w) = "'" /\ IndexFrom(w, "'", 2) # 0
  THEN <<"'", "'">> \o stripLiterals(SubSeq(w, IndexFrom(w, "'", 2) + 1, Len(w)))
  ELSE <<Head(w)>> \o stripLiterals(Tail(w))

\* const cleanSql: line comments, then block comments, then literals.
cleanSql(w) == stripLiterals(stripBlockComments(stripLineComments(w)))

\* extractTables on the words of a text.
tablesIn(text) ==
  LET w == cleanSql(text)
      after(kw) == {toLowerCase(w[i + 1]) : i \in {j \in 1..(Len(w) - 1) :
                       toLowerCase(w[j]) \in kw /\ IsIdent(w[j + 1])}}
      ctes == after({"with"})
      tables == after(TableKeywords) \ ctes
  IN IF tables # {} THEN TableSet(tables) ELSE Null

\* extractTables on each text the callers pass, computed once.
Extracted ==
  [sql \in {InsOrder, InsItemRb, Pragma, SelectAll, SelectMissing, DelOrder} |->
     tablesIn(Words(sql))]

extractTables(sql) ==
  IF sql \in DOMAIN Extracted THEN Extracted[sql] ELSE tablesIn(Words(sql))

\* A statement as the callers build it: an optional WITH clause with its
\* common table expressions, each reading one table, and a body.
NoStatement == [recursive |-> FALSE, ctes |-> <<>>, verb |-> "none", x |-> "", y |-> ""]

\* extractTables has not run.
NotExtracted == [done |-> FALSE, result |-> Null]

\* The common table expressions of one WITH clause, at most.
MaxCtes == 2

TableNames == {"Orders", "items"}
CteAliases == {"Recent", "t"}

\* name AS (SELECT id FROM from)
CteWords(c) == <<c.name, "AS", "(", "SELECT", "id", "FROM", c.from, ")">>

RECURSIVE CteList(_, _)
CteList(ctes, i) ==
  IF i > Len(ctes) THEN <<>>
  ELSE (IF i > 1 THEN <<",">> ELSE <<>>) \o CteWords(ctes[i]) \o CteList(ctes, i + 1)

\* The words of a statement, in order.
Render(st) ==
  (IF st.ctes = <<>> THEN <<>>
   ELSE <<"WITH">> \o (IF st.recursive THEN <<"RECURSIVE">> ELSE <<>>) \o CteList(st.ctes, 1))
  \o CASE st.verb = "select" -> <<"SELECT", "id", "FROM", st.x>>
        [] st.verb = "join" -> <<"SELECT", "id", "FROM", st.x, "JOIN", st.y>>
        [] st.verb = "update" -> <<"UPDATE", st.x, "SET", "id", "=", "1">>
        [] st.verb = "insert" -> <<"INSERT", "INTO", st.x, "(", "id", ")", "VALUES", "(", "1", ")">>
        [] st.verb = "delete" -> <<"DELETE", "FROM", st.x>>
        [] OTHER -> <<"PRAGMA", "user_version", "=", "1">>

\* A statement with a comment or a literal: a condition on what stands at
\* piece, a subquery after it, and possibly a second literal at the end.
TextWords(t) ==
  <<"SELECT", "id", "FROM", t.x, "WHERE", "name", "=">> \o t.piece
    \o <<"AND", "id", "IN", "(", "SELECT", "id", "FROM", t.y, ")">> \o t.tail

\* What stands at the condition: a plain literal, literals that hold a
\* keyword or a comment marker, comments that hold a keyword or a quote.
Pieces ==
  {<<"'", "abc", "'">>,
   <<"'", "FROM", "users", "'">>,
   <<"'", "--", "'">>,
   <<"'", "/*", "'">>,
   <<"1", "--", "FROM", "users", "\n">>,
   <<"1", "--", "don", "'", "t", "\n">>,
   <<"1", "/*", "FROM", "users", "*/">>,
   <<"1", "/*", "don", "'", "t", "*/">>}

Tails == {<<>>, <<"AND", "note", "=", "'", "*/", "'">>}

Texts == [x : TableNames \cup CteAliases, y : TableNames \cup CteAliases, piece : Pieces,
          tail : Tails]

\* The statements extractTables is handed: any WITH clause of distinct
\* aliases, any body over the tables and the aliases.
Statements ==
  LET names == TableNames \cup CteAliases
      lists == UNION {{l \in [1..n -> [name : CteAliases, from : names]] :
                         \A i, j \in 1..n : i # j => l[i].name # l[j].name} : n \in 0..MaxCtes}
  IN {st \in [recursive : BOOLEAN, ctes : lists,
               verb : {"select", "join", "update", "insert", "delete", "pragma"},
               x : names \cup {""}, y : names \cup {""}] :
        /\ st.recursive => st.ctes # <<>>
        /\ (st.x = "") <=> (st.verb = "pragma")
        /\ (st.y = "") <=> (st.verb # "join")}

\* The tables alone: the empty list when there is none.
TablesNoStar(sql) == extractTables(sql).tables

\* tables ? Array.from(tables) : ["*"]
TablesOrStar(sql) ==
  IF extractTables(sql).isNull THEN {"*"} ELSE extractTables(sql).tables

----------------------------------------------------------------------------
(* The engine: SQLiteEngine over one sqlite3 connection.                   *)

\* What a data statement writes.
RowOf(sql) ==
  CASE sql = InsOrder -> "orders:1"
    [] sql = InsItemRb -> "items:1"
    [] OTHER -> "none"

Done(e, ch) == [ok |-> TRUE, message |-> "", engine |-> e, changes |-> ch]
Fail(e, msg) == [ok |-> FALSE, message |-> msg, engine |-> e, changes |-> e.changes]

\* CREATE TABLE name: an error when the table exists.
createTable(name, e) ==
  IF name \in e.db
  THEN Fail(e, "table already exists")
  ELSE Done([e EXCEPT !.db = e.db \cup {name}], e.changes)

\* sqlite3 running one text on the connection: the statements of a text run
\* in order, and the first failure ends the run.
dbExec(sql, e) ==
  CASE sql \in {"BEGIN", "BEGIN IMMEDIATE"} ->
         IF e.txActive
         THEN Fail(e, "cannot start a transaction within a transaction")
         ELSE Done([e EXCEPT !.txActive = TRUE, !.txSnap = e.db], e.changes)
    [] sql = "COMMIT" ->
         IF e.txActive
         THEN Done([e EXCEPT !.txActive = FALSE, !.txSnap = {}], e.changes)
         ELSE Fail(e, "cannot commit - no transaction is active")
    [] sql = "ROLLBACK" ->
         IF e.txActive
         THEN Done([e EXCEPT !.txActive = FALSE, !.db = e.txSnap, !.txSnap = {}], e.changes)
         ELSE Fail(e, "cannot rollback - no transaction is active")
    [] sql = InsOrder ->
         \* a constraint failure aborts the statement and keeps the transaction
         IF RowOf(sql) \in e.db
         THEN Fail(e, "UNIQUE constraint failed: Orders.id")
         ELSE Done([e EXCEPT !.db = e.db \cup {RowOf(sql)}, !.changes = 1], 1)
    [] sql = InsItemRb ->
         \* ON CONFLICT ROLLBACK: the failure also rolls the transaction back
         IF RowOf(sql) \in e.db
         THEN Fail([e EXCEPT !.db = IF e.txActive THEN e.txSnap ELSE e.db,
                             !.txActive = FALSE, !.txSnap = {}],
                   "UNIQUE constraint failed: items.id")
         ELSE Done([e EXCEPT !.db = e.db \cup {RowOf(sql)}, !.changes = 1], 1)
    [] sql = DelOrder ->
         IF "orders:1" \in e.db
         THEN Done([e EXCEPT !.db = e.db \ {"orders:1"}, !.changes = 1], 1)
         ELSE Done([e EXCEPT !.changes = 0], 0)
    [] sql = CreateLedger ->
         Done([e EXCEPT !.db = e.db \cup {"table:__use_squeel_migrations"}], e.changes)
    [] sql = CreateOrders -> createTable("table:orders", e)
    [] sql = CreateItems -> createTable("table:items", e)
    [] sql = CreateBoth ->
         LET r == createTable("table:items", e)
         IN IF r.ok THEN createTable("table:orders", r.engine) ELSE r
    [] OTHER -> Done(e, e.changes)

\* SQLiteEngine.exec: this.db.exec(sql), then { changes: this.db.changes() }.
exec(sql, e) ==
  IF ~e.open
  THEN Fail(e, "Cannot read properties of undefined (reading 'exec')")
  ELSE IF e.closed THEN Fail(e, "DB has been closed.")
  ELSE dbExec(sql, e)

\* SQLiteEngine.exec of the ledger insert, with the migration's id bound.
execBind(sql, id, e) ==
  IF ~e.open
  THEN Fail(e, "Cannot read properties of undefined (reading 'exec')")
  ELSE IF e.closed THEN Fail(e, "DB has been closed.")
  ELSE IF sql # InsertLedger THEN dbExec(sql, e)
  ELSE IF "table:__use_squeel_migrations" \notin e.db
  THEN Fail(e, "no such table: __use_squeel_migrations")
  ELSE IF LedgerRow(id) \in e.db
  THEN Fail(e, "UNIQUE constraint failed: __use_squeel_migrations.id")
  ELSE Done([e EXCEPT !.db = e.db \cup {LedgerRow(id)}, !.changes = 1], 1)

\* SQLiteEngine.query: the result rows of this.db.exec(sql).
query(sql, e) ==
  IF ~e.open
  THEN [ok |-> FALSE, message |-> "Cannot read properties of undefined (reading 'exec')", rows |-> {}]
  ELSE IF e.closed
  THEN [ok |-> FALSE, message |-> "DB has been closed.", rows |-> {}]
  ELSE IF sql = SelectMissing
  THEN [ok |-> FALSE, message |-> "no such table: customers", rows |-> {}]
  ELSE [ok |-> TRUE, message |-> "", rows |-> e.db]

----------------------------------------------------------------------------
(* Messages.                                                               *)

\* Res, protocol.ts
ready == [type |-> "ready", rows |-> {}, changes |-> 0, message |-> "", stack |-> ""]
queryResult(rows) ==
  [type |-> "queryResult", rows |-> rows, changes |-> 0, message |-> "", stack |-> ""]
execResult(ch) ==
  [type |-> "execResult", rows |-> {}, changes |-> ch, message |-> "", stack |-> ""]
error(msg) == [type |-> "error", rows |-> {}, changes |-> 0, message |-> msg, stack |-> ""]
NoRes == [type |-> "none", rows |-> {}, changes |-> 0, message |-> "", stack |-> ""]

\* The trace of an error thrown in the worker.
WorkerStack == "at self.onmessage"

\* catch (e): { type: "error", error: { message: e.message, stack: e.stack } }
thrownError(msg) == [error(msg) EXCEPT !.stack = WorkerStack]

\* Req, protocol.ts
Req(type, sql, statements) == [type |-> type, sql |-> sql, statements |-> statements]

----------------------------------------------------------------------------
VARIABLES
  calls,                \* the client calls: position, closure variables, outcome
  pending,              \* RPC.pending: id -> the call whose continuation it holds
  lastId,               \* number of ids generated so far
  sent,                 \* history: id -> the call and the type of the request sent
  inbox,                \* the worker's message queue (envelopes {id, req})
  outbox,               \* envelopes {id, res} posted by the worker, in order, not yet delivered
  seen,                 \* envelopes the client's onmessage has processed
  redelivered,          \* whether the channel has delivered a duplicate
  wk,                   \* the worker's handlers that have not finished
  engine,               \* SQLiteEngine: the connection and its data
  engineLog,            \* history: the engine calls, each with its request id
  txDone,               \* history: the transaction handlers that have finished
  invoked,              \* history: id -> how often its continuation was invoked
  got,                  \* history: id -> the envelope its continuation was invoked with
  invalidationHandlers, \* SqueelClientImpl.invalidationHandlers
  handled,              \* history: the handler invocations
  posted,               \* history: the messages put on the BroadcastChannel
  invalidations,        \* history: the notifyInvalidation calls
  config,               \* SqueelClientConfig: the migrations given to the client
  initPromise,          \* SqueelClientImpl.initPromise and what it settled with
  provider,             \* SqueelProvider: its ready and error state
  initHandler,          \* the worker's handler of the init request
  reloads,              \* number of times the page has been loaded again
  upLog,                \* history: the up scripts the engine was given
  applyLog,             \* history: the applyMigrations calls that have ended
  peers,                \* the other contexts attached to the BroadcastChannel
  channel,              \* per peer: the broadcast messages not yet delivered to it
  incoming,             \* the broadcast messages not yet delivered to this client
  peerLog,              \* history: the notifyInvalidation calls of the peers
  registered,           \* history: the handlers passed to onInvalidate
  unsubscribed,         \* history: the handlers whose unsubscribe function was called
  subs,                 \* the useQuery subscriptions: refs, options and result state
  todo,                 \* handler invocations of the running notifyInvalidation, not yet run
  runLog,               \* history: the executions of runQuery that have ended
  worker,                \* the Worker object: whether its context lives, its error event
  statement,            \* the SQL statement handed to extractTables
  extracted             \* whether extractTables has run on it, and its result

\* What initialization adds to the state.
initVars == <<config, initPromise, provider, initHandler, reloads, upLog, applyLog, worker>>

\* What the broadcast channel and the handler registry add.
busVars == <<peers, channel, incoming, peerLog, registered, unsubscribed>>

\* What the subscriptions add.
subVars == <<subs, todo, runLog>>

uiVars == <<busVars, subVars>>

\* What the extraction of table names adds.
textVars == <<statement, extracted>>

extVars == <<initVars, uiVars, textVars>>

vars == <<calls, pending, lastId, sent, inbox, outbox, seen, redelivered, wk, engine,
          engineLog, txDone, invoked, got, invalidationHandlers, handled, posted,
          invalidations, extVars>>

NoEnvelope == [id |-> 0, res |-> NoRes]

\* new Worker(url): the worker's context runs, no error event is due.
NewWorker == [alive |-> TRUE, onerror |-> "none"]

\* config.migrations is undefined.
NoConfig == [defined |-> FALSE, migrations |-> <<>>, pragma |-> {}]

\* A context attached to the channel: its handlers and what it has published.
NoPeer == [handlers |-> {1}, published |-> 0]

\* A useQuery that is not mounted.
NoSub == [mounted |-> FALSE, sql |-> "", tables |-> {}, single |-> FALSE, validate |-> FALSE,
          lastHash |-> "", status |-> "loading", data |-> {}, error |-> "",
          waited |-> FALSE]

\* The worker is not handling an init request.
NoInitHandler == [id |-> 0, pc |-> "none", defined |-> FALSE, sortedMigrations |-> <<>>,
                  appliedIds |-> {}, i |-> 0, before |-> {}, ups |-> <<>>, e |-> ""]

NoResult == [status |-> "none", res |-> NoRes, value |-> 0]

NoCall == [kind |-> "none", pc |-> "idle", sql |-> "", statements |-> <<>>,
           txExecs |-> <<>>, awaiting |-> 0, queried |-> FALSE, threw |-> FALSE,
           lastRet |-> NoRes, result |-> NoResult]

InitClient ==
  /\ calls = [c \in CallIds |-> NoCall]
  /\ pending = [i \in Ids |-> 0]
  /\ lastId = 0
  /\ sent = [i \in Ids |-> [call |-> 0, type |-> "none"]]
  /\ inbox = <<>>
  /\ outbox = <<>>
  /\ seen = {}
  /\ redelivered = FALSE
  /\ wk = {}
  /\ engine = [open |-> TRUE, db |-> {}, txActive |-> FALSE, txSnap |-> {}, changes |-> 0,
              closed |-> FALSE, pragmas |-> {"foreign_keys"}]
  /\ engineLog = <<>>
  /\ txDone = {}
  /\ invoked = [i \in Ids |-> 0]
  /\ got = [i \in Ids |-> NoEnvelope]
  /\ invalidationHandlers = <<>>
  /\ handled = <<>>
  /\ posted = <<>>
  /\ invalidations = <<>>
  /\ config = NoConfig
  /\ initPromise = [state |-> "resolved", message |-> ""]
  /\ provider = [ready |-> TRUE, error |-> ""]
  /\ initHandler = NoInitHandler
  /\ reloads = 0
  /\ upLog = <<>>
  /\ applyLog = <<>>
  /\ worker = NewWorker
  /\ peers = [p \in Peers |-> NoPeer]
  /\ channel = [p \in Peers |-> <<>>]
  /\ incoming = <<>>
  /\ peerLog = <<>>
  /\ registered = {}
  /\ unsubscribed = {}
  /\ subs = [h \in HandlerIds |-> NoSub]
  /\ todo = <<>>
  /\ runLog = <<>>

\* No statement has been handed to extractTables.
Init == InitClient /\ statement = NoStatement /\ extracted = NotExtracted

----------------------------------------------------------------------------
(* The client: RPC and SqueelClientImpl.                                   *)

Resolved(res, v) == [status |-> "resolved", res |-> res, value |-> v]
Rejected(msg) == [status |-> "rejected", res |-> error(msg), value |-> 0]

\* JavaScript runs one task at a time to its end.  On the client a task is a
\* call made by the application, the delivery of a message with the
\* continuations it settles, or the callback of a transaction from its start
\* (or from the answer to its tx.query) to its next tx.query or its end;
\* on the worker it is a message handler up to an await that yields.  The
\* two threads share no memory, so a task of one is taken as a whole between
\* the tasks of the other.
callbackRunning == (\E c \in CallIds : calls[c].pc = "fn") \/ todo # <<>>
\* An init handler whose awaits all give way to the next message.
initRunningNever == FALSE

\* The init handler is running, not stopped at `await engine.init`.
initRunning == initHandler.pc \notin {"none", "engineInit"}
handlerRunning == (\E h \in wk : TRUE) \/ initRunning
Quiet == ~callbackRunning /\ ~handlerRunning

\* The tx.exec calls made so far in the run.
Staged == LET n[c \in 0..MaxCalls] == IF c = 0 THEN 0 ELSE n[c - 1] + Len(calls[c].txExecs)
          IN n[MaxCalls]

\* Calls are numbered in the order they are made.
NextCall == Cardinality({c \in CallIds : calls[c].kind # "none"}) + 1

\* Math.random().toString(36).slice(2): an opaque id.  Only equality of ids
\* matters to the code, so the ids are named in the order they are drawn;
\* a draw never repeats an earlier one.
newId == lastId + 1

\* RPC.request: register the continuation, then post the envelope.
request(c, req) ==
  /\ newId \in Ids
  /\ lastId' = newId
  /\ pending' = [pending EXCEPT ![newId] = c]
  /\ sent' = [sent EXCEPT ![newId] = [call |-> c, type |-> req.type]]
  /\ inbox' = Append(inbox, [id |-> newId, req |-> req])

\* Only the tables of the last statement.
allTablesLast(statements) == TablesOrStar(statements[Len(statements)])

\* The tables a transaction notifies: the union over its statements.
allTables(statements) ==
  UNION {TablesOrStar(statements[i]) : i \in 1..Len(statements)}

\* this.broadcaster: config.multiTab is not disabled.
broadcaster == TRUE

\* A handler function that throws when it is called.
Thrower == MaxHandlers + 1

HandlerError == "handler failed"

\* for (const handler of this.invalidationHandlers) handler(tables): the
\* handlers called, the loop ending at the first one that throws.
reached(hs) ==
  IF \E i \in 1..Len(hs) : hs[i] = Thrower
  THEN SubSeq(hs, 1, CHOOSE i \in 1..Len(hs) : hs[i] = Thrower)
  ELSE hs

\* notifyInvalidation ends with the exception of a handler.
threw(hs) == reached(hs) # <<>> /\ reached(hs)[Len(reached(hs))] = Thrower

\* SqueelClientImpl.notifyInvalidation, called from call c.
notifyInvalidation(c, tables, broadcast) ==
  LET n == Len(invalidations) + 1
      hs == reached(invalidationHandlers)
      calling == [i \in 1..Len(hs) |-> [handler |-> hs[i], tables |-> tables, n |-> n]]
      sends == broadcast /\ broadcaster /\ ~threw(invalidationHandlers)
  IN /\ invalidations' = Append(invalidations,
                                [call |-> c, tables |-> tables, broadcast |-> broadcast,
                                 handlers |-> invalidationHandlers])
     /\ handled' = handled \o calling
     \* the handlers that are a subscription's call runQuery
     /\ todo' = todo \o SelectSeq(calling, LAMBDA x : x.handler \in HandlerIds
                                                       /\ subs[x.handler].sql # "")
     /\ posted' = IF sends THEN Append(posted, [tables |-> tables]) ELSE posted
     /\ channel' = IF sends
                   THEN [p \in Peers |-> Append(channel[p], [tables |-> tables, from |-> 0,
                                                             origin |-> 0, n |-> n])]
                   ELSE channel

noInvalidation == UNCHANGED <<invalidations, handled, posted, todo, channel>>

\* A query that publishes the tables it read, as exec does.
afterQueryNotifies(c) == notifyInvalidation(c, TablesOrStar(calls[c].sql), TRUE)

\* client.query after the response: return res.rows or throw, and nothing
\* else.
afterQuery(c) == noInvalidation

\* client.query(sql) with any text: one request.
CallQuerySql(c, sql) ==
  /\ Quiet
  /\ c = NextCall /\ c \in CallIds
  /\ request(c, Req("query", sql, <<>>))
  /\ calls' = [calls EXCEPT ![c] = [NoCall EXCEPT !.kind = "query", !.pc = "awaitQuery",
                                      !.sql = sql, !.awaiting = newId]]
  /\ UNCHANGED <<outbox, seen, redelivered, wk, engine, engineLog, txDone, invoked, got,
                 invalidationHandlers, handled, posted, invalidations>>
  /\ UNCHANGED extVars

\* client.query(sql): one request.
CallQuery(c) ==
  /\ Quiet
  /\ c = NextCall /\ c \in CallIds
  /\ request(c, Req("query", SelectAll, <<>>))
  /\ calls' = [calls EXCEPT ![c] = [NoCall EXCEPT !.kind = "query", !.pc = "awaitQuery",
                                      !.sql = SelectAll, !.awaiting = newId]]
  /\ UNCHANGED <<outbox, seen, redelivered, wk, engine, engineLog, txDone, invoked, got,
                 invalidationHandlers, handled, posted, invalidations>>
  /\ UNCHANGED extVars

\* client.exec(sql): one request.
CallExec(c, sql) ==
  /\ Quiet
  /\ c = NextCall /\ c \in CallIds
  /\ request(c, Req("exec", sql, <<>>))
  /\ calls' = [calls EXCEPT ![c] = [NoCall EXCEPT !.kind = "exec", !.pc = "awaitExec",
                                      !.sql = sql, !.awaiting = newId]]
  /\ UNCHANGED <<outbox, seen, redelivered, wk, engine, engineLog, txDone, invoked, got,
                 invalidationHandlers, handled, posted, invalidations>>
  /\ UNCHANGED extVars

\* this.rpc.request(req), for a request the calls above do not send: the
\* promise resolves with the response or rejects with its error.
Request(c, req) ==
  /\ Quiet
  /\ c = NextCall /\ c \in CallIds
  /\ request(c, req)
  /\ calls' = [calls EXCEPT ![c] = [NoCall EXCEPT !.kind = req.type, !.pc = "awaitRes",
                                      !.statements = req.statements, !.awaiting = newId]]
  /\ UNCHANGED <<outbox, seen, redelivered, wk, engine, engineLog, txDone, invoked, got,
                 invalidationHandlers, handled, posted, invalidations>>
  /\ UNCHANGED extVars

\* client.transaction(fn): the callback starts with an empty statements list.
CallTransaction(c) ==
  /\ Quiet
  /\ c = NextCall /\ c \in CallIds
  /\ calls' = [calls EXCEPT ![c] = [NoCall EXCEPT !.kind = "transaction", !.pc = "fn"]]
  /\ UNCHANGED <<pending, lastId, sent, inbox, outbox, seen, redelivered, wk, engine, engineLog,
                 txDone, invoked, got, invalidationHandlers, handled, posted, invalidations>>
  /\ UNCHANGED extVars

\* A tx.exec that puts the statement in front of the list (unshift).
TxExecUnshift(c, sql) ==
  /\ calls[c].pc = "fn"
  /\ Staged < MaxStmts
  /\ calls' = [calls EXCEPT ![c].statements = <<sql>> \o @,
                            ![c].txExecs = Append(@, sql),
                            ![c].lastRet = execResult(0)]
  /\ UNCHANGED <<pending, lastId, sent, inbox, outbox, seen, redelivered, wk, engine,
                 engineLog, txDone, invoked, got, invalidationHandlers, handled, posted,
                 invalidations>>
  /\ UNCHANGED extVars

\* A tx.exec that also runs the statement at once, as client.exec would.
TxExecAtOnce(c, sql) ==
  /\ calls[c].pc = "fn"
  /\ Staged < MaxStmts
  /\ request(c, Req("exec", sql, <<>>))
  /\ calls' = [calls EXCEPT ![c].statements = Append(@, sql),
                            ![c].txExecs = Append(@, sql),
                            ![c].lastRet = execResult(0)]
  /\ UNCHANGED <<outbox, seen, redelivered, wk, engine, engineLog, txDone, invoked, got,
                 invalidationHandlers, handled, posted, invalidations>>
  /\ UNCHANGED extVars

\* A tx.exec that pushes onto one list shared by every callback in progress.
TxExecShared(c, sql) ==
  /\ calls[c].pc = "fn"
  /\ Staged < MaxStmts
  /\ calls' = [d \in CallIds |->
                IF d = c
                THEN [calls[d] EXCEPT !.statements = Append(@, sql),
                                      !.txExecs = Append(@, sql),
                                      !.lastRet = execResult(0)]
                ELSE IF calls[d].kind = "transaction" /\ calls[d].pc = "fnQuery"
                     THEN [calls[d] EXCEPT !.statements = Append(@, sql)]
                     ELSE calls[d]]
  /\ UNCHANGED <<pending, lastId, sent, inbox, outbox, seen, redelivered, wk, engine, engineLog,
                 txDone, invoked, got, invalidationHandlers, handled, posted, invalidations>>
  /\ UNCHANGED extVars

\* tx.exec(sql) inside the callback: statements.push, return { changes: 0 }.
TxExec(c, sql) ==
  /\ calls[c].pc = "fn"
  /\ Staged < MaxStmts
  /\ calls' = [calls EXCEPT ![c].statements = Append(@, sql),
                            ![c].txExecs = Append(@, sql),
                            ![c].lastRet = execResult(0)]
  /\ UNCHANGED <<pending, lastId, sent, inbox, outbox, seen, redelivered, wk, engine, engineLog,
                 txDone, invoked, got, invalidationHandlers, handled, posted, invalidations>>
  /\ UNCHANGED extVars

\* tx.query(sql) inside the callback: self.query(sql), awaited by the callback.
TxQuery(c) ==
  /\ calls[c].pc = "fn"
  /\ ~calls[c].queried
  /\ request(c, Req("query", SelectAll, <<>>))
  /\ calls' = [calls EXCEPT ![c].pc = "fnQuery", ![c].queried = TRUE,
                            ![c].awaiting = newId]
  /\ UNCHANGED <<outbox, seen, redelivered, wk, engine, engineLog, txDone, invoked, got,
                 invalidationHandlers, handled, posted, invalidations>>
  /\ UNCHANGED extVars

\* A return that sends the batch whatever its length.
FnReturnAlwaysSends(c) ==
  /\ calls[c].pc = "fn"
  /\ request(c, Req("transaction", "", calls[c].statements))
  /\ calls' = [calls EXCEPT ![c].pc = "awaitTx", ![c].awaiting = newId]
  /\ UNCHANGED <<outbox, seen, redelivered, wk, engine, engineLog, txDone, invoked, got,
                 invalidationHandlers, handled, posted, invalidations>>
  /\ UNCHANGED extVars

\* The callback returns: nothing staged -> return result; else send the batch.
FnReturn(c) ==
  /\ calls[c].pc = "fn"
  /\ IF Len(calls[c].statements) = 0
     THEN /\ calls' = [calls EXCEPT ![c].pc = "done", ![c].result = Resolved(NoRes, c)]
          /\ UNCHANGED <<pending, lastId, sent, inbox>>
     ELSE /\ request(c, Req("transaction", "", calls[c].statements))
          /\ calls' = [calls EXCEPT ![c].pc = "awaitTx", ![c].awaiting = newId]
  /\ UNCHANGED <<outbox, seen, redelivered, wk, engine, engineLog, txDone, invoked, got,
                 invalidationHandlers, handled, posted, invalidations>>
  /\ UNCHANGED extVars

\* A throw after which the staged statements are sent all the same.
FnThrowFlushes(c) ==
  /\ calls[c].pc = "fn"
  /\ Len(calls[c].statements) > 0
  /\ request(c, Req("transaction", "", calls[c].statements))
  /\ calls' = [calls EXCEPT ![c].pc = "awaitTx", ![c].threw = TRUE, ![c].awaiting = newId]
  /\ UNCHANGED <<outbox, seen, redelivered, wk, engine, engineLog, txDone, invoked, got,
                 invalidationHandlers, handled, posted, invalidations>>
  /\ UNCHANGED extVars

\* The callback throws: `await fn(tx)` rethrows out of transaction().
FnThrow(c) ==
  /\ calls[c].pc = "fn"
  /\ calls' = [calls EXCEPT ![c].pc = "done", ![c].threw = TRUE,
                            ![c].result = Rejected("callback failed")]
  /\ UNCHANGED <<pending, lastId, sent, inbox, outbox, seen, redelivered, wk, engine, engineLog,
                 txDone, invoked, got, invalidationHandlers, handled, posted, invalidations>>
  /\ UNCHANGED extVars

\* The continuation of call c, run with the settled response.
Settle(c, res) ==
  CASE calls[c].pc = "awaitQuery" ->
         /\ calls' = [calls EXCEPT ![c].pc = "done", ![c].result =
               IF res.type = "error" THEN Rejected(res.message)
               ELSE IF res.type = "queryResult" THEN Resolved(res, 0)
               ELSE Rejected("Unexpected response type")]
         /\ afterQuery(c)
    [] calls[c].pc = "awaitExec" ->
         /\ calls' = [calls EXCEPT ![c].pc = "done", ![c].result =
               IF res.type = "error" THEN Rejected(res.message)
               ELSE IF res.type = "execResult"
               THEN IF threw(invalidationHandlers) THEN Rejected(HandlerError)
                    ELSE Resolved(res, 0)
               ELSE Rejected("Unexpected response type")]
         /\ IF res.type = "execResult"
            THEN notifyInvalidation(c, TablesOrStar(calls[c].sql), TRUE)
            ELSE noInvalidation
    [] calls[c].pc = "fnQuery" ->
         \* back in the callback, with the rows or with the error thrown
         /\ calls' = [calls EXCEPT ![c].pc = "fn", ![c].lastRet =
               IF res.type = "error" THEN error(res.message)
               ELSE IF res.type = "queryResult" THEN res
               ELSE error("Unexpected response type")]
         /\ afterQuery(c)
    [] calls[c].pc = "awaitRes" ->
         \* the promise of rpc.request itself
         /\ calls' = [calls EXCEPT ![c].pc = "done", ![c].result =
               IF res.type = "error" THEN Rejected(res.message) ELSE Resolved(res, 0)]
         /\ noInvalidation
    [] calls[c].pc = "awaitTx" ->
         /\ calls' = [calls EXCEPT ![c].pc = "done", ![c].result =
               IF res.type = "error" THEN Rejected(res.message)
               ELSE IF res.type = "execResult"
               THEN IF threw(invalidationHandlers) THEN Rejected(HandlerError)
                    ELSE Resolved(res, c)
               ELSE Rejected("Transaction failed")]
         /\ IF res.type = "execResult"
            THEN notifyInvalidation(c, allTables(calls[c].statements), TRUE)
            ELSE noInvalidation
    [] OTHER ->
         \* the promise is settled already: a second resolve or reject is ignored
         /\ UNCHANGED calls
         /\ noInvalidation

\* The continuation of `await this.rpc.request(...)` in init(), and the
\* provider's then / catch on the promise init() returned.
SettleInit(res) ==
  /\ IF res.type = "error"
     THEN /\ initPromise' = [state |-> "rejected", message |-> res.message]
          /\ provider' = [provider EXCEPT !.error = res.message]
     ELSE /\ initPromise' = [state |-> "resolved", message |-> ""]
          /\ provider' = [provider EXCEPT !.ready = TRUE]
  \* every caller of init() awaits the same promise
  /\ calls' = [c \in CallIds |->
                IF calls[c].pc # "awaitInit" THEN calls[c]
                ELSE [calls[c] EXCEPT !.pc = "done", !.result =
                        IF res.type = "error" THEN Rejected(res.message)
                        ELSE Resolved(NoRes, 0)]]

\* The continuation registered in the pending map: a call's, or init's.
InitCont == 0 - 1

\* ... or that of runQuery of subscription s (`await client.query`).
runCont(s) == InitCont - s
subOf(cont) == InitCont - cont

\* options.validate of the subscriptions that have one: it throws when the
\* rows hold an order.
validateThrows(rows) == "orders:1" \in rows

\* rows[0] of a result that has rows.
firstRow(rows) == IF "orders:1" \in rows THEN "orders:1" ELSE "items:1"

\* data: the rows, or with options.single the first row or null.
dataOf(rows, single) ==
  IF ~single THEN rows
  ELSE IF rows = {} THEN {} ELSE {firstRow(rows)}

\* JSON.stringify(data)
stringify(data, single) ==
  IF single
  THEN CASE data = {} -> "null"
         [] data = {"orders:1"} -> "{orders:1}"
         [] OTHER -> "{items:1}"
  ELSE CASE data = {} -> "[]"
         [] data = {"orders:1"} -> "[{orders:1}]"
         [] data = {"items:1"} -> "[{items:1}]"
         [] OTHER -> "[{orders:1},{items:1}]"

\* A runQuery that delivers every result.
hashDiffersAlways(hash, lastHash) == TRUE

\* hash !== lastHash.current
hashDiffers(hash, lastHash) == hash # lastHash

\* A runQuery whose failure is thrown on to whoever awaits it.
caughtNever(failed) == FALSE

\* try { ... } catch (e) { setResult(... status: "error", error: e) }
caught(failed) == failed

\* runQuery after `await client.query(sql, finalParams)`: validate, single,
\* the fingerprint, setResult; the catch block on a failure.
resumeRunQuery(s, res) ==
  LET failedQuery == res.type # "queryResult"
      failedValidate == ~failedQuery /\ subs[s].validate /\ validateThrows(res.rows)
      failed == failedQuery \/ failedValidate
      e == IF res.type = "error" THEN res.message
           ELSE IF failedQuery THEN "Unexpected response type"
           ELSE "validation failed"
      data == dataOf(res.rows, subs[s].single)
      hash == stringify(data, subs[s].single)
      update == IF failed THEN caught(failed) ELSE hashDiffers(hash, subs[s].lastHash)
      next == IF failed
              THEN IF caught(failed)
                   THEN [subs[s] EXCEPT !.status = "error", !.error = e]
                   ELSE subs[s]
              ELSE IF hashDiffers(hash, subs[s].lastHash)
                   THEN [subs[s] EXCEPT !.lastHash = hash, !.status = "ready",
                                        !.data = data, !.error = ""]
                   ELSE subs[s]
  IN /\ subs' = IF subs[s].mounted THEN [subs EXCEPT ![s] = next] ELSE subs
     /\ runLog' = Append(runLog,
                         [sub |-> s, ok |-> ~failed, hash |-> IF failed THEN "" ELSE hash,
                          e |-> IF failed THEN e ELSE "", mounted |-> subs[s].mounted,
                          update |-> update /\ subs[s].mounted,
                          thrown |-> failed /\ ~caught(failed),
                          lastDelivered |-> subs[s].lastHash,
                          status |-> IF subs[s].mounted THEN next.status ELSE subs[s].status])

Continue(cont, res) ==
  IF cont \in CallIds
  THEN Settle(cont, res) /\ UNCHANGED <<initPromise, provider, subs, runLog>>
  ELSE IF cont = InitCont
  THEN SettleInit(res) /\ UNCHANGED <<subs, runLog>> /\ noInvalidation
  ELSE /\ resumeRunQuery(subOf(cont), res)
       /\ UNCHANGED <<calls, initPromise, provider>>
       /\ noInvalidation

\* A lookup that ignores the envelope's id and takes the oldest pending entry.
pendingGetOldest(id) ==
  IF \E k \in Ids : pending[k] # 0
  THEN CHOOSE k \in Ids : pending[k] # 0 /\ \A j \in Ids : pending[j] # 0 => k <= j
  ELSE id

\* this.pending.get(id): the entry looked up for an envelope.
pendingGet(id) == id

\* this.pending.clear() in place of this.pending.delete(id)
pendingClear(id) == [i \in Ids |-> 0]

\* An onmessage that leaves the entry in the map.
pendingKeep(id) == pending

\* this.pending.delete(id)
pendingDelete(id) == [pending EXCEPT ![id] = 0]

Without(q, i) == SubSeq(q, 1, i - 1) \o SubSeq(q, i + 1, Len(q))

\* RPC: worker.onmessage, for the i-th envelope in flight.
onmessage(i) ==
  /\ Quiet
  /\ i \in 1..Len(outbox)
  /\ outbox' = Without(outbox, i)
  /\ seen' = seen \cup {outbox[i]}
  /\ LET env == outbox[i]
         k == pendingGet(env.id)
     IN IF pending[k] # 0 /\ env.res # NoRes
        THEN /\ pending' = pendingDelete(env.id)
             /\ invoked' = [invoked EXCEPT ![k] = @ + 1]
             /\ got' = [got EXCEPT ![k] = env]
             /\ Continue(pending[k], env.res)
        ELSE UNCHANGED <<pending, invoked, got, calls, invalidations, handled, posted,
                         todo, channel, initPromise, provider, subs, runLog>>
  /\ UNCHANGED <<lastId, sent, inbox, redelivered, wk, engine, engineLog, txDone,
                 invalidationHandlers>>
  /\ UNCHANGED <<textVars, config, initHandler, reloads, worker, upLog, applyLog>>
  /\ UNCHANGED <<peers, incoming, peerLog, registered, unsubscribed>>

\* The channel delivers an envelope a second time (a duplicate, stale response).
Redeliver(env) ==
  /\ Quiet
  /\ ~redelivered
  /\ env \in seen
  /\ outbox' = Append(outbox, env)
  /\ redelivered' = TRUE
  /\ UNCHANGED <<calls, pending, lastId, sent, inbox, seen, wk, engine, engineLog, txDone, invoked,
                 got, invalidationHandlers, handled, posted, invalidations>>
  /\ UNCHANGED extVars

----------------------------------------------------------------------------
(* The worker: self.onmessage of workerEntry.ts.                           *)

\* respond(res): self.postMessage({ id, res })
\* A respond that posts the envelope twice.
respondTwice(id, res) ==
  outbox' = outbox \o <<[id |-> id, res |-> res], [id |-> id, res |-> res]>>

respond(id, res) == outbox' = Append(outbox, [id |-> id, res |-> res])

\* What the database holds durably: the state a rollback returns to.
durable(e) == IF e.txActive THEN e.txSnap ELSE e.db

\* History of the engine calls: the request that made the call, the text,
\* whether it succeeded, the committed data before it, the rows it returned.
logged(id, sql, ok, rows) ==
  engineLog' = Append(engineLog, [id |-> id, sql |-> sql, ok |-> ok,
                                  committed |-> durable(engine), rows |-> rows])

\* Every await gives way to the next message.
yieldsAlways(h) == TRUE

\* Whether handler h, stopped at an await, gives way to the next message.  It
\* does when the awaited promise is still unsettled.  SQLiteEngine.exec and
\* SQLiteEngine.query run this.db.exec synchronously: their promise is settled
\* when it is awaited, and the handler goes on before any other message.
yields(h) == FALSE

\* The event loop dispatches the next message when no continuation is ready.
CanTake == inbox # <<>> /\ ~callbackRunning /\ ~initRunning /\ \A h \in wk : yields(h)

\* case "query"
WorkerQuery ==
  /\ CanTake
  /\ Head(inbox).req.type = "query"
  /\ LET m == Head(inbox)
         r == query(m.req.sql, engine)
     IN /\ logged(m.id, m.req.sql, r.ok, r.rows)
        /\ respond(m.id, IF r.ok THEN queryResult(r.rows) ELSE thrownError(r.message))
  /\ inbox' = Tail(inbox)
  /\ UNCHANGED <<calls, pending, lastId, sent, seen, redelivered, wk, engine, txDone, invoked, got,
                 invalidationHandlers, handled, posted, invalidations>>
  /\ UNCHANGED extVars

\* case "exec"
WorkerExec ==
  /\ CanTake
  /\ Head(inbox).req.type = "exec"
  /\ LET m == Head(inbox)
         r == exec(m.req.sql, engine)
     IN /\ logged(m.id, m.req.sql, r.ok, {})
        /\ engine' = r.engine
        /\ respond(m.id, IF r.ok THEN execResult(r.changes) ELSE thrownError(r.message))
  /\ inbox' = Tail(inbox)
  /\ UNCHANGED <<calls, pending, lastId, sent, seen, redelivered, wk, txDone, invoked, got,
                 invalidationHandlers, handled, posted, invalidations>>
  /\ UNCHANGED extVars

finished(h, res, committed) ==
  txDone' = txDone \cup {[id |-> h.id, res |-> res, committed |-> committed,
                          before |-> h.before, after |-> engine'.db,
                          open |-> engine'.txActive, e |-> h.e]}

\* SQLiteEngine.close: if (this.db) this.db.close().  The transaction that
\* was open on the connection is rolled back.
close(e) ==
  IF ~e.open THEN e
  ELSE [e EXCEPT !.closed = TRUE, !.db = durable(e), !.txActive = FALSE, !.txSnap = {}]

\* An envelope without a request: { id } alone.
NoReq == Req("none", "", <<>>)
Stray == [id |-> 0, req |-> NoReq]

\* Something posts an envelope without a request to the worker.
PostStray ==
  /\ inbox' = Append(inbox, Stray)
  /\ UNCHANGED <<calls, pending, lastId, sent, outbox, seen, redelivered, wk, engine, engineLog,
                 txDone, invoked, got, invalidationHandlers, handled, posted, invalidations>>
  /\ UNCHANGED extVars

\* if (!req) return
WorkerIgnore ==
  /\ CanTake
  /\ Head(inbox).req = NoReq
  /\ inbox' = Tail(inbox)
  /\ UNCHANGED <<calls, pending, lastId, sent, outbox, seen, redelivered, wk, engine, engineLog,
                 txDone, invoked, got, invalidationHandlers, handled, posted, invalidations>>
  /\ UNCHANGED extVars

\* case "close"
WorkerClose ==
  /\ CanTake
  /\ Head(inbox).req.type = "close"
  /\ engine' = close(engine)
  /\ respond(Head(inbox).id, ready)
  /\ inbox' = Tail(inbox)
  /\ UNCHANGED <<calls, pending, lastId, sent, seen, redelivered, wk, engineLog, txDone, invoked,
                 got, invalidationHandlers, handled, posted, invalidations>>
  /\ UNCHANGED extVars

\* A default branch that posts nothing.
unknownTypeSilent(type) == NoRes

\* default: respond({ type: "error", error: { message: `Unknown request type: ...` } })
unknownType(type) ==
  error(IF type = "export" THEN "Unknown request type: export"
        ELSE "Unknown request type: import")

\* The request types the switch has no case for.
WorkerDefault ==
  /\ CanTake
  /\ Head(inbox).req.type \in {"export", "import"}
  /\ respond(Head(inbox).id, unknownType(Head(inbox).req.type))
  /\ inbox' = Tail(inbox)
  /\ UNCHANGED <<calls, pending, lastId, sent, seen, redelivered, wk, engine, engineLog, txDone,
                 invoked, got, invalidationHandlers, handled, posted, invalidations>>
  /\ UNCHANGED extVars

\* case "transaction": BEGIN IMMEDIATE, outside the try block.
WorkerTransaction ==
  /\ CanTake
  /\ Head(inbox).req.type = "transaction"
  /\ LET m == Head(inbox)
         r == exec("BEGIN IMMEDIATE", engine)
         h == [id |-> m.id, statements |-> m.req.statements, pc |-> "statements", i |-> 1,
               totalChanges |-> 0, e |-> "", before |-> engine.db]
     IN /\ logged(m.id, "BEGIN IMMEDIATE", r.ok, {})
        /\ engine' = r.engine
        /\ IF r.ok
           THEN /\ wk' = wk \cup {h}
                /\ UNCHANGED <<outbox, txDone>>
           ELSE /\ respond(m.id, thrownError(r.message))
                /\ finished([h EXCEPT !.e = r.message], thrownError(r.message), FALSE)
                /\ UNCHANGED wk
  /\ inbox' = Tail(inbox)
  /\ UNCHANGED <<calls, pending, lastId, sent, seen, redelivered, invoked, got,
                 invalidationHandlers, handled, posted, invalidations>>
  /\ UNCHANGED extVars

\* for (const stmt of req.statements): one engine.exec per turn of the loop.
TxStatement(h) ==
  /\ h \in wk
  /\ h.pc = "statements"
  /\ h.i <= Len(h.statements)
  /\ LET r == exec(h.statements[h.i], engine)
     IN /\ logged(h.id, h.statements[h.i], r.ok, {})
        /\ engine' = r.engine
        /\ wk' = (wk \ {h}) \cup
                 {IF r.ok
                  THEN [h EXCEPT !.i = @ + 1, !.totalChanges = @ + r.changes]
                  ELSE [h EXCEPT !.pc = "catch", !.e = r.message]}
  /\ UNCHANGED <<calls, pending, lastId, sent, inbox, outbox, seen, redelivered, txDone, invoked,
                 got, invalidationHandlers, handled, posted, invalidations>>
  /\ UNCHANGED extVars

\* After the loop: COMMIT, then respond with the total.
TxCommit(h) ==
  /\ h \in wk
  /\ h.pc = "statements"
  /\ h.i > Len(h.statements)
  /\ LET r == exec("COMMIT", engine)
     IN /\ logged(h.id, "COMMIT", r.ok, {})
        /\ engine' = r.engine
        /\ IF r.ok
           THEN /\ wk' = wk \ {h}
                /\ respond(h.id, execResult(h.totalChanges))
                /\ finished(h, execResult(h.totalChanges), TRUE)
           ELSE /\ wk' = (wk \ {h}) \cup {[h EXCEPT !.pc = "catch", !.e = r.message]}
                /\ UNCHANGED <<outbox, txDone>>
  /\ UNCHANGED <<calls, pending, lastId, sent, inbox, seen, redelivered, invoked, got,
                 invalidationHandlers, handled, posted, invalidations>>
  /\ UNCHANGED extVars

\* A catch block that rethrows without rolling back.
rollbackSkipped(e) == Done(e, e.changes)

\* await engine.exec("ROLLBACK", []) of the catch block.
rollback(e) == exec("ROLLBACK", e)

\* catch (e) { await engine.exec("ROLLBACK", []); throw e; } and the outer
\* catch, which responds with the message of whatever was thrown last.
TxRollback(h) ==
  /\ h \in wk
  /\ h.pc = "catch"
  /\ LET r == rollback(engine)
         e == IF r.ok THEN h.e ELSE r.message
     IN /\ logged(h.id, "ROLLBACK", r.ok, {})
        /\ engine' = r.engine
        /\ respond(h.id, thrownError(e))
        /\ finished(h, thrownError(e), FALSE)
  /\ wk' = wk \ {h}
  /\ UNCHANGED <<calls, pending, lastId, sent, inbox, seen, redelivered, invoked, got,
                 invalidationHandlers, handled, posted, invalidations>>
  /\ UNCHANGED extVars

----------------------------------------------------------------------------
(* Initialization: SqueelProvider, SqueelClientImpl.init, the worker's     *)
(* case "init", SQLiteEngine.init and applyMigrations.                     *)

\* Migration lists: the ids of a list are distinct (the id is the key of the
\* ledger), in any order.
MigrationLists ==
  UNION {{m \in [1..n -> [id : MigrationIds, up : UpScripts]] :
            \A i, j \in 1..n : i # j => m[i].id # m[j].id} : n \in 0..MaxMigrations}

Configs ==
  {NoConfig} \cup {[defined |-> TRUE, migrations |-> m, pragma |-> {}] : m \in MigrationLists}

\* The request of init(): the configuration's migrations travel with it.
InitReq(cfg) == [type |-> "init", sql |-> "", statements |-> <<>>,
                 defined |-> cfg.defined, migrations |-> cfg.migrations,
                 pragma |-> cfg.pragma]

\* The page is loaded: a client and a worker are constructed over the stored
\* database (storage "opfs"); nothing is initialized yet.
InitFresh(configs) ==
  /\ calls = [c \in CallIds |-> NoCall]
  /\ pending = [i \in Ids |-> 0]
  /\ lastId = 0
  /\ sent = [i \in Ids |-> [call |-> 0, type |-> "none"]]
  /\ inbox = <<>>
  /\ outbox = <<>>
  /\ seen = {}
  /\ redelivered = FALSE
  /\ wk = {}
  /\ engine = [open |-> FALSE, db |-> {}, txActive |-> FALSE, txSnap |-> {}, changes |-> 0,
              closed |-> FALSE, pragmas |-> {}]
  /\ engineLog = <<>>
  /\ txDone = {}
  /\ invoked = [i \in Ids |-> 0]
  /\ got = [i \in Ids |-> NoEnvelope]
  /\ invalidationHandlers = <<>>
  /\ handled = <<>>
  /\ posted = <<>>
  /\ invalidations = <<>>
  /\ config \in configs
  /\ initPromise = [state |-> "null", message |-> ""]
  /\ provider = [ready |-> FALSE, error |-> ""]
  /\ initHandler = NoInitHandler
  /\ reloads = 0
  /\ upLog = <<>>
  /\ applyLog = <<>>
  /\ worker = NewWorker
  /\ peers = [p \in Peers |-> NoPeer]
  /\ channel = [p \in Peers |-> <<>>]
  /\ incoming = <<>>
  /\ peerLog = <<>>
  /\ registered = {}
  /\ unsubscribed = {}
  /\ subs = [h \in HandlerIds |-> NoSub]
  /\ todo = <<>>
  /\ runLog = <<>>
  /\ statement = NoStatement
  /\ extracted = NotExtracted

InitPage == InitFresh(Configs)

\* Configurations with pragma settings: foreign_keys, which the engine sets
\* itself, and journal_mode.
PragmaConfigs ==
  {[defined |-> d, migrations |-> IF d THEN <<[id |-> 1, up |-> CreateOrders]>> ELSE <<>>,
    pragma |-> p] : d \in BOOLEAN, p \in SUBSET {"foreign_keys", "journal_mode"}}

InitPragma == InitFresh(PragmaConfigs)

\* SqueelProvider's effect: client.init(), which sends the init request.
ProviderMount ==
  /\ Quiet
  /\ initPromise.state = "null"
  /\ request(InitCont, InitReq(config))
  /\ initPromise' = [state |-> "pending", message |-> ""]
  /\ UNCHANGED <<calls, outbox, seen, redelivered, wk, engine, engineLog, txDone, invoked, got,
                 invalidationHandlers, handled, posted, invalidations>>
  /\ UNCHANGED <<textVars, config, provider, initHandler, reloads, worker, upLog, applyLog>>
  /\ UNCHANGED uiVars

\* What the handler does once engine.init has resolved: applyMigrations when
\* the request has migrations, the ready response otherwise.
afterEngineInit(defined) == IF defined THEN "apply" ELSE "respond"

\* case "init": await engine.init(...), which waits for sqlite3InitModule.
\* An init() that sends its request whatever this.initPromise holds.
alreadyCalledNever == FALSE

\* if (this.initPromise): init() has been called on this client.
alreadyCalled == initPromise.state # "null"

\* client.init() by any caller: the first call sends the request, every
\* call returns the promise of the first.
CallInit(c) ==
  /\ Quiet
  /\ c = NextCall /\ c \in CallIds
  /\ IF ~alreadyCalled
     THEN /\ request(InitCont, InitReq(config))
          /\ initPromise' = [state |-> "pending", message |-> ""]
     ELSE UNCHANGED <<lastId, pending, sent, inbox, initPromise>>
  /\ calls' = [calls EXCEPT ![c] =
       IF initPromise.state \in {"null", "pending"} \/ ~alreadyCalled
       THEN [NoCall EXCEPT !.kind = "init", !.pc = "awaitInit"]
       ELSE [NoCall EXCEPT !.kind = "init", !.pc = "done", !.result =
               IF initPromise.state = "rejected" THEN Rejected(initPromise.message)
               ELSE Resolved(NoRes, 0)]]
  /\ UNCHANGED <<outbox, seen, redelivered, wk, engine, engineLog, txDone, invoked, got,
                 invalidationHandlers, handled, posted, invalidations>>
  /\ UNCHANGED <<textVars, config, provider, initHandler, reloads, worker, upLog, applyLog>>
  /\ UNCHANGED uiVars

WorkerInit ==
  /\ CanTake
  /\ Head(inbox).req.type = "init"
  /\ initHandler.pc = "none"
  /\ LET m == Head(inbox)
     IN initHandler' = [NoInitHandler EXCEPT
                          !.id = m.id, !.defined = m.req.defined,
                          !.sortedMigrations = m.req.migrations,
                          !.pc = IF engine.open THEN afterEngineInit(m.req.defined)
                                 ELSE "engineInit"]
  /\ inbox' = Tail(inbox)
  /\ UNCHANGED <<calls, pending, lastId, sent, outbox, seen, redelivered, wk, engine, engineLog,
                 txDone, invoked, got, invalidationHandlers, handled, posted, invalidations>>
  /\ UNCHANGED <<textVars, config, initPromise, provider, reloads, worker, upLog, applyLog>>
  /\ UNCHANGED uiVars

\* sqlite3InitModule resolves: the database is opened, and the handler goes on.
EngineInitDone ==
  /\ initHandler.pc = "engineInit"
  /\ ~callbackRunning /\ \A h \in wk : yields(h)
  /\ engine' = [engine EXCEPT !.open = TRUE, !.pragmas = {"foreign_keys"}]
  /\ initHandler' = [initHandler EXCEPT !.pc = afterEngineInit(initHandler.defined)]
  /\ UNCHANGED <<calls, pending, lastId, sent, inbox, outbox, seen, redelivered, wk, engineLog,
                 txDone, invoked, got, invalidationHandlers, handled, posted, invalidations>>
  /\ UNCHANGED <<textVars, config, initPromise, provider, reloads, worker, upLog, applyLog>>
  /\ UNCHANGED uiVars

\* A sort that leaves the list as it was given.
unsortedMigrations(migrations) == migrations

\* [...migrations].sort((a, b) => a.id - b.id): a stable sort on the id.
RECURSIVE sortedMigrations(_)
sortedMigrations(migrations) ==
  IF migrations = <<>> THEN <<>>
  ELSE LET n == Len(migrations)
           m == migrations[n]
           s == sortedMigrations(SubSeq(migrations, 1, n - 1))
           k == Cardinality({i \in 1..Len(s) : s[i].id <= m.id})
       IN SubSeq(s, 1, k) \o <<m>> \o SubSeq(s, k + 1, Len(s))

\* An applier that takes no migration as applied.
appliedIdsNone(e) == {}

\* The ids in the rows of SELECT id FROM __use_squeel_migrations.
appliedIds(e) == {id \in MigrationIds : LedgerRow(id) \in e.db}

\* applyMigrations up to its loop: the ledger table, the applied ids, the sort.
ApplyStart ==
  /\ initHandler.pc = "apply"
  /\ LET r == exec(CreateLedger, engine)
     IN /\ engine' = r.engine
        /\ initHandler' = [initHandler EXCEPT
                             !.pc = "loop", !.i = 1, !.before = engine.db,
                             !.appliedIds = appliedIds(r.engine),
                             !.sortedMigrations = sortedMigrations(@)]
  /\ UNCHANGED <<calls, pending, lastId, sent, inbox, outbox, seen, redelivered, wk, engineLog,
                 txDone, invoked, got, invalidationHandlers, handled, posted, invalidations>>
  /\ UNCHANGED <<textVars, config, initPromise, provider, reloads, worker, upLog, applyLog>>
  /\ UNCHANGED uiVars

\* A catch block that rethrows without rolling back.
migrationRollbackSkipped(e) == Done(e, e.changes)

\* await engine.exec("ROLLBACK", []) of applyMigrations' catch block.
migrationRollback(e) == exec("ROLLBACK", e)

\* One migration that is not applied: BEGIN, the up script, the ledger row,
\* COMMIT; on a failure after BEGIN, ROLLBACK and the error thrown again.
applyOne(m, e) ==
  LET b == exec("BEGIN", e)
      u == exec(m.up, b.engine)
      l == execBind(InsertLedger, m.id, u.engine)
      c == exec("COMMIT", l.engine)
      f == IF ~u.ok THEN u ELSE IF ~l.ok THEN l ELSE c
      rb == migrationRollback(f.engine)
  IN IF ~b.ok
     THEN [ok |-> FALSE, message |-> b.message, engine |-> b.engine,
           upRan |-> FALSE, upOk |-> FALSE, upMessage |-> ""]
     ELSE IF u.ok /\ l.ok /\ c.ok
     THEN [ok |-> TRUE, message |-> "", engine |-> c.engine, upRan |-> TRUE, upOk |-> TRUE,
           upMessage |-> ""]
     ELSE [ok |-> FALSE, message |-> IF rb.ok THEN f.message ELSE rb.message,
           engine |-> rb.engine, upRan |-> TRUE, upOk |-> u.ok, upMessage |-> u.message]

\* One turn of `for (const migration of sortedMigrations)`.
MigrationStep ==
  /\ initHandler.pc = "loop"
  /\ initHandler.i <= Len(initHandler.sortedMigrations)
  /\ LET m == initHandler.sortedMigrations[initHandler.i]
         r == applyOne(m, engine)
         up == [session |-> reloads, id |-> m.id, ok |-> r.upOk, committed |-> r.ok,
                applied |-> LedgerRow(m.id) \in engine.db, message |-> r.upMessage,
                before |-> engine.db, after |-> r.engine.db, open |-> r.engine.txActive]
     IN IF m.id \in initHandler.appliedIds
        THEN /\ initHandler' = [initHandler EXCEPT !.i = @ + 1]
             /\ UNCHANGED <<engine, upLog>>
        ELSE /\ engine' = r.engine
             /\ upLog' = IF r.upRan THEN Append(upLog, up) ELSE upLog
             /\ initHandler' = [initHandler EXCEPT
                                  !.i = IF r.ok THEN @ + 1 ELSE @,
                                  !.pc = IF r.ok THEN @ ELSE "failed",
                                  !.ups = IF r.upRan THEN Append(@, up) ELSE @,
                                  !.e = IF r.ok THEN @ ELSE r.message]
  /\ UNCHANGED <<calls, pending, lastId, sent, inbox, outbox, seen, redelivered, wk, engineLog,
                 txDone, invoked, got, invalidationHandlers, handled, posted, invalidations>>
  /\ UNCHANGED <<textVars, config, initPromise, provider, reloads, worker, applyLog>>
  /\ UNCHANGED uiVars

\* A handler that answers ready whatever applyMigrations did.
initResponseReady(h) == ready

\* The response of the init handler: ready, or the error of the outer catch.
initResponse(h) == IF h.pc = "failed" THEN thrownError(h.e) ELSE ready

\* applyMigrations returns or throws, and the handler responds.
InitRespond ==
  /\ \/ initHandler.pc \in {"respond", "failed"}
     \/ initHandler.pc = "loop" /\ initHandler.i > Len(initHandler.sortedMigrations)
  /\ respond(initHandler.id, initResponse(initHandler))
  /\ applyLog' = IF initHandler.pc = "respond" THEN applyLog
                 ELSE Append(applyLog,
                             [session |-> reloads, id |-> initHandler.id,
                              ok |-> initHandler.pc # "failed", message |-> initHandler.e,
                              migrations |-> initHandler.sortedMigrations,
                              applied |-> initHandler.appliedIds,
                              before |-> initHandler.before, after |-> engine.db,
                              open |-> engine.txActive, ups |-> initHandler.ups])
  /\ initHandler' = NoInitHandler
  /\ UNCHANGED <<calls, pending, lastId, sent, inbox, seen, redelivered, wk, engine, engineLog,
                 txDone, invoked, got, invalidationHandlers, handled, posted, invalidations>>
  /\ UNCHANGED <<textVars, config, initPromise, provider, reloads, worker, upLog>>
  /\ UNCHANGED uiVars

\* The page is loaded again: a new client and a new worker over the stored
\* database; what the old ones held is gone.
Reload ==
  /\ reloads < MaxReloads
  /\ ~callbackRunning /\ ~handlerRunning
  /\ reloads' = reloads + 1
  /\ calls' = [c \in CallIds |-> NoCall]
  /\ pending' = [i \in Ids |-> 0]
  /\ inbox' = <<>>
  /\ outbox' = <<>>
  /\ wk' = {}
  /\ engine' = [open |-> FALSE, db |-> durable(engine), txActive |-> FALSE, txSnap |-> {},
                changes |-> 0, closed |-> FALSE, pragmas |-> {}]
  /\ initPromise' = [state |-> "null", message |-> ""]
  /\ provider' = [ready |-> FALSE, error |-> ""]
  /\ initHandler' = NoInitHandler
  /\ invalidationHandlers' = <<>>
  /\ UNCHANGED <<lastId, sent, seen, redelivered, engineLog, txDone, invoked, got, handled,
                 posted, invalidations>>
  /\ worker' = NewWorker
  /\ UNCHANGED <<textVars, config, upLog, applyLog>>
  /\ UNCHANGED uiVars

NextInit ==
  \/ ProviderMount
  \/ WorkerInit
  \/ EngineInitDone
  \/ ApplyStart
  \/ MigrationStep
  \/ InitRespond
  \/ onmessage(1)
  \/ Reload

SpecInit == InitPage /\ [][NextInit]_vars

SpecPragma == InitPragma /\ [][NextInit]_vars

\* init() called by the provider and by other callers, at any time.
NextMemo ==
  \/ ProviderMount
  \/ \E c \in CallIds : CallInit(c)
  \/ WorkerInit
  \/ EngineInitDone
  \/ ApplyStart
  \/ MigrationStep
  \/ InitRespond
  \/ onmessage(1)

SpecMemo == InitPage /\ [][NextMemo]_vars

----------------------------------------------------------------------------
(* The invalidation bus: onInvalidate, notifyInvalidation, Broadcaster.    *)

Range(q) == {q[i] : i \in 1..Len(q)}

\* An unsubscribe that leaves the handler in the set.
handlersDeleteNone(hs, h) == hs

\* this.invalidationHandlers.delete(handler)
handlersDelete(hs, h) == SelectSeq(hs, LAMBDA x : x # h)

\* this.invalidationHandlers.add(handler): a Set keeps one entry per handler,
\* in insertion order.
handlersAdd(hs, h) == IF h \in Range(hs) THEN hs ELSE Append(hs, h)

\* client.onInvalidate(handler), with a handler function not used before.
OnInvalidate(h) ==
  /\ Quiet
  /\ h \in HandlerIds
  /\ h = Cardinality(registered) + 1
  /\ invalidationHandlers' = handlersAdd(invalidationHandlers, h)
  /\ registered' = registered \cup {h}
  /\ UNCHANGED <<calls, pending, lastId, sent, inbox, outbox, seen, redelivered, wk, engine,
                 engineLog, txDone, invoked, got, handled, posted, invalidations>>
  /\ UNCHANGED <<peers, channel, incoming, peerLog, unsubscribed>>
  /\ UNCHANGED <<initVars, subVars, textVars>>

\* client.onInvalidate(handler) with a handler function that throws.
OnInvalidateThrower ==
  /\ Quiet
  /\ Thrower \notin Range(invalidationHandlers)
  /\ invalidationHandlers' = handlersAdd(invalidationHandlers, Thrower)
  /\ UNCHANGED <<calls, pending, lastId, sent, inbox, outbox, seen, redelivered, wk, engine,
                 engineLog, txDone, invoked, got, handled, posted, invalidations>>
  /\ UNCHANGED <<peers, channel, incoming, peerLog, registered, unsubscribed>>
  /\ UNCHANGED <<initVars, subVars, textVars>>

\* The function onInvalidate returned is called.
Unsubscribe(h) ==
  /\ Quiet
  /\ h \in registered \ unsubscribed
  /\ invalidationHandlers' = handlersDelete(invalidationHandlers, h)
  /\ unsubscribed' = unsubscribed \cup {h}
  /\ UNCHANGED <<calls, pending, lastId, sent, inbox, outbox, seen, redelivered, wk, engine,
                 engineLog, txDone, invoked, got, handled, posted, invalidations>>
  /\ UNCHANGED <<peers, channel, incoming, peerLog, registered>>
  /\ UNCHANGED <<initVars, subVars, textVars>>

\* A callback of the broadcaster that publishes to the peers again.
onMessageBroadcastAgain == TRUE

\* The broadcast argument of the broadcaster's callback:
\* (tables) => this.notifyInvalidation(tables, false)
onMessageBroadcast == FALSE

\* Table sets a peer publishes (the changed tables of its own writes).
PeerTables == {{"orders"}, {"customers"}, {"*"}}

\* A peer runs the same client: its notifyInvalidation after a write of its
\* own, which invokes its handlers and posts to every other context.
PeerPublish(p, tables) ==
  /\ Quiet
  /\ peers[p].published < 1
  /\ LET n == Len(peerLog) + 1
         msg == [tables |-> tables, from |-> p, origin |-> p, n |-> n]
     IN /\ peerLog' = Append(peerLog, [peer |-> p, tables |-> tables, broadcast |-> TRUE,
                                       handlers |-> peers[p].handlers, from |-> p,
                                       origin |-> p, n |-> n])
        /\ incoming' = IF broadcaster THEN Append(incoming, msg) ELSE incoming
        /\ channel' = [q \in Peers |-> IF q # p /\ broadcaster THEN Append(channel[q], msg)
                                       ELSE channel[q]]
  /\ peers' = [peers EXCEPT ![p].published = @ + 1]
  /\ UNCHANGED <<calls, pending, lastId, sent, inbox, outbox, seen, redelivered, wk, engine,
                 engineLog, txDone, invoked, got, invalidationHandlers, handled, posted,
                 invalidations>>
  /\ UNCHANGED <<registered, unsubscribed>>
  /\ UNCHANGED <<initVars, subVars, textVars>>

\* channel.onmessage of a peer: onMessage(event.data.tables), which is its
\* notifyInvalidation(tables, false).
PeerReceive(p) ==
  /\ channel[p] # <<>>
  /\ LET msg == Head(channel[p])
         again == [msg EXCEPT !.from = p]
     IN /\ peerLog' = Append(peerLog, [peer |-> p, tables |-> msg.tables,
                                       broadcast |-> onMessageBroadcast,
                                       handlers |-> peers[p].handlers, from |-> msg.from,
                                       origin |-> msg.origin, n |-> msg.n])
        /\ channel' = [q \in Peers |->
                         IF q = p THEN Tail(channel[q])
                         ELSE IF onMessageBroadcast /\ broadcaster
                              THEN Append(channel[q], again)
                              ELSE channel[q]]
        /\ incoming' = IF onMessageBroadcast /\ broadcaster
                       THEN Append(incoming, again)
                       ELSE incoming
  /\ UNCHANGED <<calls, pending, lastId, sent, inbox, outbox, seen, redelivered, wk, engine,
                 engineLog, txDone, invoked, got, invalidationHandlers, handled, posted,
                 invalidations>>
  /\ UNCHANGED <<peers, registered, unsubscribed>>
  /\ UNCHANGED <<initVars, subVars, textVars>>

\* The writes the peers have made so far.
PeerWrites ==
  LET n[p \in 0..MaxPeers] == IF p = 0 THEN 0 ELSE n[p - 1] + peers[p].published
  IN n[MaxPeers]

\* A peer's client.exec(sql) on the database the contexts share (storage
\* "opfs", one dbName): its worker runs the text on a connection of its own,
\* and on an execResult the peer notifies with the changed tables.
PeerWrite(p, sql) ==
  /\ PeerWrites < MaxWrites
  /\ LET r == exec(sql, [engine EXCEPT !.txActive = FALSE, !.txSnap = {}])
         tables == TablesOrStar(sql)
         n == Len(peerLog) + 1
         msg == [tables |-> tables, from |-> p, origin |-> p, n |-> n]
     IN /\ engine' = [engine EXCEPT !.db = r.engine.db]
        /\ peerLog' = IF r.ok
                      THEN Append(peerLog, [peer |-> p, tables |-> tables, broadcast |-> TRUE,
                                            handlers |-> peers[p].handlers, from |-> p,
                                            origin |-> p, n |-> n])
                      ELSE peerLog
        /\ incoming' = IF r.ok /\ broadcaster THEN Append(incoming, msg) ELSE incoming
        /\ channel' = [q \in Peers |-> IF q # p /\ r.ok /\ broadcaster
                                       THEN Append(channel[q], msg)
                                       ELSE channel[q]]
  /\ peers' = [peers EXCEPT ![p].published = @ + 1]
  /\ UNCHANGED <<calls, pending, lastId, sent, inbox, outbox, seen, redelivered, wk,
                 engineLog, txDone, invoked, got, invalidationHandlers, handled, posted,
                 invalidations>>
  /\ UNCHANGED <<registered, unsubscribed>>
  /\ UNCHANGED <<initVars, subVars, textVars>>

\* channel.onmessage of this client's Broadcaster.
BroadcastReceive ==
  /\ Quiet
  /\ incoming # <<>>
  /\ notifyInvalidation(0, Head(incoming).tables, onMessageBroadcast)
  /\ incoming' = Tail(incoming)
  /\ UNCHANGED <<calls, pending, lastId, sent, inbox, outbox, seen, redelivered, wk, engine,
                 engineLog, txDone, invoked, got, invalidationHandlers>>
  /\ UNCHANGED <<peers, peerLog, registered, unsubscribed, subs, runLog>>
  /\ UNCHANGED <<initVars, textVars>>

\* The worker has nothing left in its queue.
WorkerAhead == inbox = <<>>

\* No peer has a broadcast message left to take.
PeersAhead == \A p \in Peers : channel[p] = <<>>

\* Every context has taken the messages broadcast to it.
ChannelAhead == PeersAhead /\ incoming = <<>>

\* Handlers, writes of this client and of its peers, and the channel.  The
\* worker answers in the order of its queue whenever it runs, and the client
\* sees it only through the responses: the client's tasks are taken when the
\* worker has emptied its queue, the responses still in flight.  A context
\* sees a peer's write only when it takes the broadcast message, so a message
\* is taken before the next task starts and the time of the peer's write is
\* left open.
NextBus ==
  \/ WorkerAhead /\ ChannelAhead /\ \E h \in HandlerIds : OnInvalidate(h)
  \/ WorkerAhead /\ ChannelAhead /\ \E c \in CallIds, sql \in {InsOrder, Pragma} : CallExec(c, sql)
  \/ WorkerExec
  \/ WorkerAhead /\ ChannelAhead /\ onmessage(1)
  \/ WorkerAhead /\ ChannelAhead /\ \E p \in Peers : PeerPublish(p, {"customers"})
  \/ \E p \in Peers : PeerReceive(p)
  \/ WorkerAhead /\ BroadcastReceive

SpecBus == Init /\ [][NextBus]_vars

\* The handler registry on its own: handlers come and go between the
\* notifications that the client's writes cause.
NextHandlers ==
  \/ WorkerAhead /\ ChannelAhead /\ \E h \in HandlerIds : OnInvalidate(h)
  \/ WorkerAhead /\ ChannelAhead /\ \E h \in HandlerIds : Unsubscribe(h)
  \/ WorkerAhead /\ ChannelAhead /\ \E c \in CallIds, sql \in {InsOrder, Pragma} : CallExec(c, sql)
  \/ WorkerExec
  \/ WorkerAhead /\ ChannelAhead /\ onmessage(1)
  \/ \E p \in Peers : PeerReceive(p)

SpecHandlers == Init /\ [][NextHandlers]_vars

\* Handlers that return and a handler that throws, registered around the
\* writes of the client: exec calls and transactions.
NextThrow ==
  \/ WorkerAhead /\ ChannelAhead /\ \E h \in HandlerIds : OnInvalidate(h)
  \/ WorkerAhead /\ ChannelAhead /\ OnInvalidateThrower
  \/ WorkerAhead /\ ChannelAhead /\ \E c \in CallIds, sql \in {InsOrder, Pragma} : CallExec(c, sql)
  \/ WorkerAhead /\ ChannelAhead /\ \E c \in CallIds : CallTransaction(c)
  \/ \E c \in CallIds, sql \in {InsOrder, InsItemRb} : TxExec(c, sql)
  \/ \E c \in CallIds : FnReturn(c)
  \/ WorkerExec
  \/ WorkerTransaction
  \/ \E h \in wk : TxStatement(h)
  \/ \E h \in wk : TxCommit(h)
  \/ \E h \in wk : TxRollback(h)
  \/ WorkerAhead /\ ChannelAhead /\ onmessage(1)
  \/ \E p \in Peers : PeerReceive(p)

SpecThrow == Init /\ [][NextThrow]_vars

\* Queries that succeed and fail, beside the writes of the client, with
\* handlers registered.
NextPublish ==
  \/ WorkerAhead /\ ChannelAhead /\ OnInvalidate(1)
  \/ WorkerAhead /\ ChannelAhead
       /\ \E c \in CallIds, sql \in {SelectAll, SelectMissing} : CallQuerySql(c, sql)
  \/ WorkerAhead /\ ChannelAhead /\ \E c \in CallIds : CallExec(c, InsOrder)
  \/ WorkerAhead /\ ChannelAhead /\ \E c \in CallIds : CallTransaction(c)
  \/ \E c \in CallIds, sql \in {InsOrder, InsItemRb} : TxExec(c, sql)
  \/ \E c \in CallIds : TxQuery(c)
  \/ \E c \in CallIds : FnReturn(c)
  \/ WorkerQuery
  \/ WorkerExec
  \/ WorkerTransaction
  \/ \E h \in wk : TxStatement(h)
  \/ \E h \in wk : TxCommit(h)
  \/ \E h \in wk : TxRollback(h)
  \/ WorkerAhead /\ ChannelAhead /\ onmessage(1)
  \/ \E p \in Peers : PeerReceive(p)

SpecPublish == Init /\ [][NextPublish]_vars

----------------------------------------------------------------------------
(* Subscriptions: useQuery.                                                *)

\* The options and the text of the useQuery calls.
SubOptions ==
  {[sql |-> SelectAll, dependsOn |-> Null, single |-> FALSE, validate |-> TRUE],
   [sql |-> SelectAll, dependsOn |-> TableSet({"*"}), single |-> TRUE, validate |-> FALSE],
   [sql |-> SelectMissing, dependsOn |-> Null, single |-> FALSE, validate |-> FALSE]}

\* tables.current: options.dependsOn, else the extracted tables, else ["*"].
dependencies(o) ==
  IF ~o.dependsOn.isNull THEN o.dependsOn.tables
  ELSE IF extractTables(o.sql).isNull THEN {"*"}
  ELSE extractTables(o.sql).tables

\* A test that only looks for the changed tables among the dependencies.
isRelevantByName(changedTables, tables) == \E t \in changedTables : t \in tables

\* changedTables.some(t => t === "*" || tables.current.includes("*")
\*                         || tables.current.includes(t))
isRelevant(changedTables, tables) ==
  \E t \in changedTables : t = "*" \/ "*" \in tables \/ t \in tables

\* A component calling useQuery mounts under a ready provider: the first
\* effect runs the query, the second registers the invalidation handler.
Mount(s, o) ==
  /\ Quiet
  /\ provider.ready
  /\ s \in HandlerIds
  /\ s = Cardinality(registered) + 1
  /\ request(runCont(s), Req("query", o.sql, <<>>))
  /\ subs' = [subs EXCEPT ![s] = [NoSub EXCEPT !.mounted = TRUE, !.sql = o.sql,
                                               !.tables = dependencies(o),
                                               !.single = o.single,
                                               !.validate = o.validate]]
  /\ invalidationHandlers' = handlersAdd(invalidationHandlers, s)
  /\ registered' = registered \cup {s}
  /\ UNCHANGED <<calls, outbox, seen, redelivered, wk, engine, engineLog, txDone, invoked, got,
                 handled, posted, invalidations>>
  /\ UNCHANGED <<peers, channel, incoming, peerLog, unsubscribed, todo, runLog>>
  /\ UNCHANGED <<initVars, textVars>>

\* The handler a subscription registered, invoked by notifyInvalidation:
\* runQuery() when the changed tables are relevant.
HandlerRun ==
  /\ todo # <<>>
  /\ LET x == Head(todo)
         s == x.handler
     IN IF isRelevant(x.tables, subs[s].tables)
        THEN request(runCont(s), Req("query", subs[s].sql, <<>>))
        ELSE UNCHANGED <<pending, lastId, sent, inbox>>
  /\ todo' = Tail(todo)
  /\ UNCHANGED <<calls, outbox, seen, redelivered, wk, engine, engineLog, txDone, invoked, got,
                 invalidationHandlers, handled, posted, invalidations>>
  /\ UNCHANGED <<busVars, subs, runLog>>
  /\ UNCHANGED <<initVars, textVars>>

\* Subscriptions of one client, its writes, and the writes of its peers.
\* The worker answers in the order of its queue whenever it runs, and the
\* client sees it only through the responses: the client's tasks are taken
\* when the worker has emptied its queue, the responses still in flight.  A
\* broadcast message is taken before the next task starts, the time of the
\* peer's write being left open.
NextSub ==
  \/ WorkerAhead /\ ChannelAhead /\ \E s \in HandlerIds, o \in SubOptions : Mount(s, o)
  \/ HandlerRun
  \/ WorkerAhead /\ ChannelAhead /\ \E c \in CallIds : CallExec(c, InsOrder)
  \/ WorkerQuery
  \/ WorkerExec
  \/ WorkerAhead /\ ChannelAhead /\ onmessage(1)
  \/ WorkerAhead /\ ChannelAhead /\ \E p \in Peers, tables \in PeerTables : PeerPublish(p, tables)
  \/ \E p \in Peers : PeerReceive(p)
  \/ WorkerAhead /\ BroadcastReceive

SpecSub == Init /\ [][NextSub]_vars

\* One subscription, one handler that throws, and one write of the client.
\* The worker takes every message it is sent, every response is delivered
\* to the client, and every handler that was called runs.
NextFresh ==
  \/ WorkerAhead /\ outbox = <<>> /\ \E o \in SubOptions : Mount(1, o)
  \/ WorkerAhead /\ outbox = <<>> /\ OnInvalidateThrower
  \/ WorkerAhead /\ outbox = <<>> /\ CallExec(1, InsOrder)
  \/ WorkerQuery
  \/ WorkerExec
  \/ onmessage(1)
  \/ HandlerRun
  \/ \E p \in Peers : PeerReceive(p)

SpecFresh ==
  /\ Init
  /\ [][NextFresh]_vars
  /\ WF_vars(WorkerQuery)
  /\ WF_vars(WorkerExec)
  /\ WF_vars(onmessage(1))
  /\ WF_vars(HandlerRun)

\* The options of a component that declares no dependency at all.
NoDependencies ==
  [sql |-> SelectAll, dependsOn |-> TableSet({}), single |-> FALSE, validate |-> FALSE]

RenderOptions == SubOptions \cup {NoDependencies}

\* The component renders again with other arguments: tables.current is set
\* again only while it is empty; a new SQL text gives a new runQuery, so the
\* first effect runs it and the second replaces the registered handler by a
\* new one.  options.single and options.validate stay as they are.
Rerender(s, o) ==
  /\ Quiet
  /\ s \in HandlerIds
  /\ subs[s].mounted
  /\ o.single = subs[s].single /\ o.validate = subs[s].validate
  /\ subs' = [subs EXCEPT ![s].sql = o.sql,
                          ![s].tables = IF subs[s].tables = {} THEN dependencies(o)
                                        ELSE subs[s].tables]
  /\ IF o.sql # subs[s].sql
     THEN /\ request(runCont(s), Req("query", o.sql, <<>>))
          /\ invalidationHandlers' = handlersAdd(handlersDelete(invalidationHandlers, s), s)
     ELSE UNCHANGED <<pending, lastId, sent, inbox, invalidationHandlers>>
  /\ UNCHANGED <<calls, outbox, seen, redelivered, wk, engine, engineLog, txDone, invoked, got,
                 handled, posted, invalidations>>
  /\ UNCHANGED <<busVars, todo, runLog>>
  /\ UNCHANGED <<initVars, textVars>>

\* One subscription of a client over a database that other contexts write.
\* The peers write at any time; this client only reads, and takes a broadcast
\* message before its next task starts.
NextStatus ==
  \/ WorkerAhead /\ incoming = <<>> /\ \E o \in RenderOptions : Mount(1, o)
  \/ WorkerAhead /\ incoming = <<>> /\ \E o \in RenderOptions : Rerender(1, o)
  \/ HandlerRun
  \/ WorkerQuery
  \/ WorkerAhead /\ incoming = <<>> /\ onmessage(1)
  \/ \E p \in Peers, sql \in {InsOrder, DelOrder} : PeerWrite(p, sql)
  \/ BroadcastReceive

SpecStatus == Init /\ [][NextStatus]_vars

----------------------------------------------------------------------------
(* The end of the worker.                                                  *)

\* The worker's context ends (worker.terminate(), a crash of its script, the
\* browser discarding it): what it had not taken from its queue is lost and
\* its handlers never go on.  With crashed, an error event is due at the
\* Worker object.
WorkerTerminate(crashed) ==
  /\ worker.alive
  /\ worker' = [alive |-> FALSE, onerror |-> IF crashed THEN "due" ELSE "none"]
  /\ inbox' = <<>>
  /\ wk' = {}
  /\ UNCHANGED <<calls, pending, lastId, sent, outbox, seen, redelivered, engine, engineLog,
                 txDone, invoked, got, invalidationHandlers, handled, posted, invalidations>>
  /\ UNCHANGED <<textVars, config, initPromise, provider, initHandler, reloads, upLog, applyLog>>
  /\ UNCHANGED uiVars

\* The error event is dispatched to worker.onerror: console.error of the
\* event and of its details.  The RPC object is not told, and the pending
\* map stays as it is.
WorkerError ==
  /\ Quiet
  /\ worker.onerror = "due"
  /\ worker' = [worker EXCEPT !.onerror = "handled"]
  /\ UNCHANGED <<calls, pending, lastId, sent, inbox, outbox, seen, redelivered, wk, engine, engineLog,
                 txDone, invoked, got, invalidationHandlers, handled, posted, invalidations>>
  /\ UNCHANGED <<textVars, config, initPromise, provider, initHandler, reloads, upLog, applyLog>>
  /\ UNCHANGED uiVars

\* Query and exec traffic with a worker that may end at any time.  A request
\* posted to a worker that has ended is never taken.
NextTerminate ==
  \/ \E c \in CallIds : CallQuery(c)
  \/ \E c \in CallIds : CallExec(c, InsOrder)
  \/ worker.alive /\ WorkerQuery
  \/ worker.alive /\ WorkerExec
  \/ onmessage(1)
  \/ \E crashed \in BOOLEAN : WorkerTerminate(crashed)
  \/ WorkerError

SpecTerminate == Init /\ [][NextTerminate]_vars

(***************************************************************************)
(* Ids as rpc.request draws them: Math.random().toString(36).slice(2) is   *)
(* whichever string the generator yields, whatever is pending.             *)
(***************************************************************************)

\* rpc.request with the id the generator yielded.
RequestDrawn(c, id, req) ==
  /\ Quiet
  /\ c = NextCall /\ c \in CallIds
  /\ id \in Ids
  /\ pending' = [pending EXCEPT ![id] = c]
  /\ sent' = [sent EXCEPT ![id] = [call |-> c, type |-> req.type]]
  /\ inbox' = Append(inbox, [id |-> id, req |-> req])
  /\ calls' = [calls EXCEPT ![c] = [NoCall EXCEPT !.kind = req.type, !.pc = "awaitRes",
                                      !.sql = req.sql, !.awaiting = id]]
  /\ UNCHANGED <<lastId, outbox, seen, redelivered, wk, engine, engineLog, txDone, invoked, got,
                 invalidationHandlers, handled, posted, invalidations>>
  /\ UNCHANGED extVars

NextDrawn ==
  \/ \E c \in CallIds, id \in Ids :
       \E req \in {Req("query", SelectAll, <<>>), Req("exec", InsOrder, <<>>)} :
         RequestDrawn(c, id, req)
  \/ WorkerQuery
  \/ WorkerExec
  \/ onmessage(1)

SpecDrawn == Init /\ [][NextDrawn]_vars

(***************************************************************************)
(* extractTables as a function of the statement.                           *)
(***************************************************************************)

InitText == InitClient /\ statement \in Statements /\ extracted = NotExtracted

\* extractTables(sql)
Extract ==
  /\ ~extracted.done
  /\ extracted' = [done |-> TRUE, result |-> tablesIn(Render(statement))]
  /\ UNCHANGED <<calls, pending, lastId, sent, inbox, outbox, seen, redelivered, wk, engine,
                 engineLog, txDone, invoked, got, invalidationHandlers, handled, posted,
                 invalidations, initVars, uiVars, statement>>

NextText == Extract

InitClean == InitClient /\ statement \in Texts /\ extracted = NotExtracted

\* extractTables(sql), for a statement with comments and literals
ExtractText ==
  /\ ~extracted.done
  /\ extracted' = [done |-> TRUE, result |-> tablesIn(TextWords(statement))]
  /\ UNCHANGED <<calls, pending, lastId, sent, inbox, outbox, seen, redelivered, wk, engine,
                 engineLog, txDone, invoked, got, invalidationHandlers, handled, posted,
                 invalidations, initVars, uiVars, statement>>

NextClean == ExtractText

SpecClean == InitClean /\ [][NextClean]_vars

SpecText == InitText /\ [][NextText]_vars

(***************************************************************************)
(* The protocol from a fresh page: the worker has just been created, the   *)
(* engine is not open, and the requests are sent through rpc.request.      *)
(***************************************************************************)

\* The requests of protocol.ts, one or two per type.
BootRequests ==
  {Req("query", SelectAll, <<>>), Req("exec", InsOrder, <<>>),
   Req("transaction", "", <<InsOrder>>), Req("transaction", "", <<InsItemRb>>),
   Req("close", "", <<>>), Req("export", "", <<>>), Req("import", "", <<>>)}

\* The configurations of the provider: one migration that applies, one that
\* fails.
BootConfigs ==
  {[defined |-> TRUE, migrations |-> <<[id |-> 1, up |-> CreateOrders]>>, pragma |-> {}],
   [defined |-> TRUE, migrations |-> <<[id |-> 1, up |-> InsItemRb]>>, pragma |-> {}]}

InitBoot == InitPage /\ config \in BootConfigs

\* A step of the worker: the message handler and its continuations.
WorkerStep ==
  \/ WorkerInit
  \/ EngineInitDone
  \/ ApplyStart
  \/ MigrationStep
  \/ InitRespond
  \/ WorkerQuery
  \/ WorkerExec
  \/ WorkerTransaction
  \/ \E h \in wk : TxStatement(h)
  \/ \E h \in wk : TxCommit(h)
  \/ \E h \in wk : TxRollback(h)
  \/ WorkerClose
  \/ WorkerDefault

NextBoot ==
  \/ WorkerAhead /\ ProviderMount
  \/ WorkerAhead /\ \E c \in CallIds, req \in BootRequests : Request(c, req)
  \/ WorkerInit
  \/ EngineInitDone
  \/ ApplyStart
  \/ MigrationStep
  \/ InitRespond
  \/ WorkerQuery
  \/ WorkerExec
  \/ WorkerTransaction
  \/ \E h \in wk : TxStatement(h)
  \/ \E h \in wk : TxCommit(h)
  \/ \E h \in wk : TxRollback(h)
  \/ WorkerClose
  \/ WorkerDefault
  \/ onmessage(1)

SpecBoot == InitBoot /\ [][NextBoot]_vars

\* A provider that is ready at every render.
providerReadyAlways == TRUE

\* const { ready } = useSqueel(): the provider's state at the render.
providerReady == provider.ready

\* A component calling useQuery renders for the first time, under a provider
\* that is ready or not: runQuery returns at once when it is not, and the
\* second effect registers no handler.
FirstRender(s, o) ==
  /\ Quiet
  /\ s \in HandlerIds
  /\ subs[s].sql = "" /\ \A r \in 1..(s - 1) : subs[r].sql # ""
  /\ subs' = [subs EXCEPT ![s] = [NoSub EXCEPT !.mounted = TRUE, !.sql = o.sql,
                                               !.tables = dependencies(o),
                                               !.single = o.single,
                                               !.validate = o.validate,
                                               !.waited = ~provider.ready]]
  /\ IF providerReady
     THEN /\ request(runCont(s), Req("query", o.sql, <<>>))
          /\ invalidationHandlers' = handlersAdd(invalidationHandlers, s)
          /\ registered' = registered \cup {s}
     ELSE UNCHANGED <<pending, lastId, sent, inbox, invalidationHandlers, registered>>
  /\ UNCHANGED <<calls, outbox, seen, redelivered, wk, engine, engineLog, txDone, invoked, got,
                 handled, posted, invalidations>>
  /\ UNCHANGED <<peers, channel, incoming, peerLog, unsubscribed, todo, runLog>>
  /\ UNCHANGED <<initVars, textVars>>

\* The render after setReady(true): runQuery is a new function, so both
\* effects run, the first calls it and the second registers the handler.
EffectsRun(s) ==
  /\ Quiet
  /\ providerReady
  /\ s \in HandlerIds \ registered
  /\ subs[s].mounted
  /\ request(runCont(s), Req("query", subs[s].sql, <<>>))
  /\ invalidationHandlers' = handlersAdd(invalidationHandlers, s)
  /\ registered' = registered \cup {s}
  /\ UNCHANGED <<calls, outbox, seen, redelivered, wk, engine, engineLog, txDone, invoked, got,
                 handled, posted, invalidations>>
  /\ UNCHANGED <<peers, channel, incoming, peerLog, unsubscribed>>
  /\ UNCHANGED <<initVars, subVars, textVars>>

\* result.refetch(), which is runQuery.
Refetch(s) ==
  /\ Quiet
  /\ s \in HandlerIds
  /\ subs[s].mounted
  /\ IF providerReady
     THEN request(runCont(s), Req("query", subs[s].sql, <<>>))
     ELSE UNCHANGED <<pending, lastId, sent, inbox>>
  /\ UNCHANGED <<calls, outbox, seen, redelivered, wk, engine, engineLog, txDone, invoked, got,
                 invalidationHandlers, handled, posted, invalidations>>
  /\ UNCHANGED <<initVars, uiVars, textVars>>

\* The component unmounts: the cleanup of the second effect, when it had
\* registered a handler, unsubscribes it.
Unmount(s) ==
  /\ Quiet
  /\ s \in HandlerIds
  /\ subs[s].mounted
  /\ subs' = [subs EXCEPT ![s].mounted = FALSE]
  /\ invalidationHandlers' = handlersDelete(invalidationHandlers, s)
  /\ unsubscribed' = unsubscribed \cup {s}
  /\ UNCHANGED <<calls, pending, lastId, sent, inbox, outbox, seen, redelivered, wk, engine,
                 engineLog, txDone, invoked, got, handled, posted, invalidations>>
  /\ UNCHANGED <<peers, channel, incoming, peerLog, registered, todo, runLog>>
  /\ UNCHANGED <<initVars, textVars>>

\* The components that call useQuery, at most.
MaxMounts == 1

\* Components that render before and after the provider is ready and
\* unmount at any time, around the initialisation, a write of the client and
\* a message of a peer.  refetch is called while the provider is not ready.
NextMount ==
  \/ WorkerAhead /\ outbox = <<>> /\ ProviderMount
  \/ WorkerAhead /\ outbox = <<>> /\ ChannelAhead
       /\ \E s \in 1..MaxMounts, o \in SubOptions : FirstRender(s, o)
  \/ WorkerAhead /\ outbox = <<>> /\ ChannelAhead /\ \E s \in HandlerIds : EffectsRun(s)
  \/ WorkerAhead /\ outbox = <<>> /\ ChannelAhead /\ ~provider.ready
       /\ \E s \in HandlerIds : Refetch(s)
  \/ WorkerAhead /\ outbox = <<>> /\ ChannelAhead /\ \E s \in HandlerIds : Unmount(s)
  \/ WorkerAhead /\ outbox = <<>> /\ ChannelAhead /\ CallExec(1, InsOrder)
  \/ WorkerAhead /\ outbox = <<>> /\ ChannelAhead
       /\ \E p \in Peers : PeerPublish(p, {"orders"})
  \/ WorkerAhead /\ BroadcastReceive
  \/ HandlerRun
  \/ outbox = <<>> /\ WorkerInit
  \/ outbox = <<>> /\ EngineInitDone
  \/ outbox = <<>> /\ ApplyStart
  \/ outbox = <<>> /\ MigrationStep
  \/ outbox = <<>> /\ InitRespond
  \/ outbox = <<>> /\ WorkerQuery
  \/ outbox = <<>> /\ WorkerExec
  \/ onmessage(1)
  \/ \E p \in Peers : PeerReceive(p)

SpecMount == InitBoot /\ [][NextMount]_vars

\* The same, with envelopes that carry no request among the messages.
NextEnvelopes ==
  \/ NextBoot
  \/ WorkerAhead /\ PostStray
  \/ WorkerIgnore

SpecEnvelopes == InitBoot /\ [][NextEnvelopes]_vars

\* The requests sent beside the initialisation where eventual settlement is
\* checked.
MaxRequests == 1

\* The page handles a response before the next step of the worker and
\* before it sends the next request: a step of the worker and the handling of
\* a response to another request commute.
PageAhead == outbox = <<>>

NextLive ==
  \/ WorkerAhead /\ PageAhead /\ ProviderMount
  \/ WorkerAhead /\ PageAhead /\ \E c \in 1..MaxRequests, req \in BootRequests : Request(c, req)
  \/ PageAhead /\ WorkerInit
  \/ PageAhead /\ EngineInitDone
  \/ PageAhead /\ ApplyStart
  \/ PageAhead /\ MigrationStep
  \/ PageAhead /\ InitRespond
  \/ PageAhead /\ WorkerQuery
  \/ PageAhead /\ WorkerExec
  \/ PageAhead /\ WorkerTransaction
  \/ PageAhead /\ \E h \in wk : TxStatement(h)
  \/ PageAhead /\ \E h \in wk : TxCommit(h)
  \/ PageAhead /\ \E h \in wk : TxRollback(h)
  \/ PageAhead /\ WorkerClose
  \/ PageAhead /\ WorkerDefault
  \/ onmessage(1)

\* The event loops of the worker and of the page run every task that is
\* queued: a message that was posted is handled, a handler that awaits a
\* settled promise goes on.
SpecLive ==
  InitBoot /\ [][NextLive]_vars /\ WF_vars(PageAhead /\ WorkerStep) /\ WF_vars(onmessage(1))

----------------------------------------------------------------------------
Next ==
  \/ \E c \in CallIds : CallQuery(c)
  \/ \E c \in CallIds, sql \in WriteSql : CallExec(c, sql)
  \/ \E c \in CallIds : CallTransaction(c)
  \/ \E c \in CallIds, sql \in WriteSql : TxExec(c, sql)
  \/ \E c \in CallIds : TxQuery(c)
  \/ \E c \in CallIds : FnReturn(c)
  \/ \E c \in CallIds : FnThrow(c)
  \/ onmessage(1)
  \/ WorkerQuery
  \/ WorkerExec
  \/ WorkerTransaction
  \/ \E h \in wk : TxStatement(h)
  \/ \E h \in wk : TxCommit(h)
  \/ \E h \in wk : TxRollback(h)

Spec == Init /\ [][Next]_vars

\* The correlation channel alone, under a worker side that answers in any
\* order and may repeat an answer: query and exec traffic.
NextChannel ==
  \/ \E c \in CallIds : CallQuery(c)
  \/ \E c \in CallIds, sql \in WriteSql : CallExec(c, sql)
  \/ \E i \in 1..Len(outbox) : onmessage(i)
  \/ \E env \in seen : Redeliver(env)
  \/ WorkerQuery
  \/ WorkerExec

SpecChannel == Init /\ [][NextChannel]_vars

----------------------------------------------------------------------------
(* Correlation channel.                                                    *)

\* C1: with several requests outstanding and the responses delivered in any
\* order, the continuation of request k is invoked with the envelope whose
\* id is k, and the call that made request k settles with that envelope's
\* response: rejected with its message when it is an error, resolved with it
\* otherwise.
C1_OwnResponse ==
  \A k \in Ids : invoked[k] > 0 =>
    /\ got[k].id = k
    /\ LET c == sent[k].call
       IN (calls[c].pc = "done" /\ calls[c].awaiting = k /\ sent[k].type = calls[c].kind) =>
            IF got[k].res.type = "error"
            THEN calls[c].result = Rejected(got[k].res.message)
            ELSE calls[c].result.status = "resolved" /\ calls[c].result.res = got[k].res

\* Two requests outstanding at once; the later one has been settled while the
\* response to the earlier one is still in flight.
C1_Witness ==
  \E a, b \in Ids :
    /\ a < b
    /\ pending[a] # 0
    /\ invoked[b] = 1
    /\ calls[sent[b].call].pc = "done"
    /\ \E i \in 1..Len(outbox) : outbox[i].id = a

\* C2: the continuation of a request is invoked at most once, and the delivery
\* of an envelope whose id has no pending entry invokes no continuation and
\* leaves the pending table and every call unchanged.
C2_AtMostOnce ==
  /\ [](\A k \in Ids : invoked[k] <= 1)
  /\ [][\A i \in 1..Len(outbox) :
          (outbox' = Without(outbox, i) /\ pending[outbox[i].id] = 0)
            => (invoked' = invoked /\ got' = got /\ pending' = pending /\ calls' = calls)]_vars

\* A duplicate of a processed response has been delivered and dropped.
C2_Witness ==
  /\ redelivered
  /\ Len(outbox) = 0
  /\ \E k \in Ids : invoked[k] = 1 /\ pending[k] = 0

----------------------------------------------------------------------------
(* Transactions.                                                           *)

LogIdx == 1..Len(engineLog)

\* The engine was called with this text for request id.
Issued(id, sql) == \E i \in LogIdx : engineLog[i].id = id /\ engineLog[i].sql = sql

\* The staged statements the engine ran for request id, in order.
Executed(id) ==
  LET f[i \in 0..Len(engineLog)] ==
        IF i = 0 THEN <<>>
        ELSE IF engineLog[i].id = id /\ engineLog[i].sql \in WriteSql
             THEN Append(f[i - 1], engineLog[i].sql)
             ELSE f[i - 1]
  IN f[Len(engineLog)]

\* The id of the batch request of call c, 0 when it has sent none.
BatchOf(c) ==
  IF \E k \in Ids : sent[k] = [call |-> c, type |-> "transaction"]
  THEN CHOOSE k \in Ids : sent[k] = [call |-> c, type |-> "transaction"]
  ELSE 0

\* The notifyInvalidation calls made by call c.
NotifiedBy(c) == {i \in 1..Len(invalidations) : invalidations[i].call = c}

Transactions == {c \in CallIds : calls[c].kind = "transaction"}

Committed(c) == \E t \in txDone : t.id = BatchOf(c) /\ t.committed

\* The union of the tables of the statements passed to tx.exec by call c.
StagedTables(c) ==
  UNION {TablesOrStar(calls[c].txExecs[j]) : j \in 1..Len(calls[c].txExecs)}

C4_OncePerCall ==
  \A c \in Transactions : calls[c].pc = "done" =>
    /\ Cardinality(NotifiedBy(c)) = 1
    /\ Committed(c)
    /\ \A i \in NotifiedBy(c) : invalidations[i].tables = StagedTables(c)

\* C4, amended: a transaction() call fires at most one notification; it has
\* fired one exactly when it has ended and the worker has committed its
\* batch; the tables notified are the union of the tables of the statements
\* staged, with "*" for a statement whose tables are unknown.  A call that
\* staged nothing, whose callback threw or whose batch failed fires none.
C4_OncePerCommittedBatch ==
  \A c \in Transactions :
    /\ Cardinality(NotifiedBy(c)) <= 1
    /\ (NotifiedBy(c) # {}) <=> (calls[c].pc = "done" /\ Committed(c))
    /\ \A i \in NotifiedBy(c) :
         /\ invalidations[i].tables = StagedTables(c)
         /\ invalidations[i].broadcast

\* A committed batch of a statement on a known table and one on unknown
\* tables has been notified.
C4_Witness ==
  \E c \in Transactions :
    /\ Committed(c)
    /\ Len(calls[c].txExecs) > 1
    /\ \E i \in NotifiedBy(c) : {"*", "orders"} \subseteq invalidations[i].tables

C6_OriginalError ==
  \A c \in Transactions :
    \A t \in txDone :
      (calls[c].pc = "done" /\ t.id = BatchOf(c) /\ t.e # "")
        => calls[c].result = Rejected(t.e)

\* C7: a tx.exec call sends no request and reaches no engine: it appends its
\* statement to the staged list and returns { changes: 0 }.  The statements
\* the engine runs for the batch are, in order, the statements passed to
\* tx.exec: all of them once the batch has committed.
C7_StagedInOrder ==
  /\ [][\A c \in CallIds, sql \in WriteSql :
          (calls[c].pc = "fn" /\ calls'[c].txExecs = Append(calls[c].txExecs, sql))
            => /\ sent' = sent /\ inbox' = inbox /\ pending' = pending
               /\ engineLog' = engineLog /\ engine' = engine
               /\ calls'[c].statements = Append(calls[c].statements, sql)
               /\ calls'[c].lastRet = execResult(0)]_vars
  /\ [](\A c \in Transactions :
          /\ \A i \in 1..Len(inbox) :
               inbox[i].id = BatchOf(c) => inbox[i].req.statements = calls[c].txExecs
          /\ Len(Executed(BatchOf(c))) <= Len(calls[c].txExecs)
          /\ Executed(BatchOf(c)) = SubSeq(calls[c].txExecs, 1, Len(Executed(BatchOf(c))))
          /\ Committed(c) => Executed(BatchOf(c)) = calls[c].txExecs)

\* A batch of two different statements has committed.
C7_Witness ==
  \E c \in Transactions :
    /\ Committed(c)
    /\ Len(calls[c].txExecs) = 2
    /\ calls[c].txExecs[1] # calls[c].txExecs[2]

\* C8: a transaction() whose callback returned without staging a statement
\* resolves with the callback's result, has sent no transaction request and
\* has fired no notification; every message on the broadcast channel comes
\* from a notification.
C8_NothingStaged ==
  /\ Len(posted) = Cardinality({i \in 1..Len(invalidations) : invalidations[i].broadcast})
  /\ \A c \in Transactions :
       (calls[c].pc = "done" /\ ~calls[c].threw /\ Len(calls[c].txExecs) = 0)
         => /\ calls[c].result = Resolved(NoRes, c)
            /\ BatchOf(c) = 0
            /\ NotifiedBy(c) = {}

\* A callback has queried, staged nothing and returned.
C8_Witness ==
  \E c \in Transactions :
    /\ calls[c].pc = "done" /\ ~calls[c].threw
    /\ Len(calls[c].txExecs) = 0
    /\ calls[c].queried

\* C9: when the callback throws, transaction() rejects with the callback's
\* error, no transaction request is sent, the engine runs none of the staged
\* statements for that call, and no notification is fired.
C9_CallbackThrows ==
  \A c \in Transactions : calls[c].threw =>
    /\ calls[c].pc = "done"
    /\ calls[c].result = Rejected("callback failed")
    /\ BatchOf(c) = 0
    /\ \A i \in LogIdx :
         sent[engineLog[i].id].call = c => engineLog[i].sql \notin WriteSql
    /\ NotifiedBy(c) = {}

\* A callback has staged statements and thrown, and the worker has since
\* handled every request it was sent.
C9_Witness ==
  \E c \in Transactions :
    /\ calls[c].threw
    /\ Len(calls[c].txExecs) > 0
    /\ Len(inbox) = 0
    /\ \E d \in CallIds : d # c /\ calls[d].pc = "done"

\* C10: a tx.query is sent when it is made, the rows it gets are the rows
\* the engine returned, these are the committed contents of the database at
\* that moment, and no statement of the same transaction() call had reached
\* the engine before.
C10_QueryReadsCommitted ==
  /\ \A c \in Transactions : calls[c].pc = "fnQuery" =>
       /\ sent[calls[c].awaiting] = [call |-> c, type |-> "query"]
       /\ \/ \E i \in 1..Len(inbox) : inbox[i].id = calls[c].awaiting
          \/ \E i \in LogIdx : engineLog[i].id = calls[c].awaiting
  /\ \A i \in LogIdx :
       LET k == engineLog[i].id
           c == sent[k].call
       IN (sent[k].type = "query" /\ c \in Transactions /\ engineLog[i].ok) =>
            /\ engineLog[i].rows = engineLog[i].committed
            /\ \A j \in 1..(i - 1) : sent[engineLog[j].id].call # c
            /\ invoked[k] > 0 => got[k].res = queryResult(engineLog[i].rows)

\* A callback staged a statement, then queried, and the rows it got do not
\* hold the row of the staged statement.
C10_Witness ==
  \E c \in Transactions :
    /\ calls[c].pc = "fn"
    /\ Len(calls[c].txExecs) > 0
    /\ RowOf(calls[c].txExecs[1]) \in Rows
    /\ calls[c].lastRet.type = "queryResult"
    /\ RowOf(calls[c].txExecs[1]) \notin calls[c].lastRet.rows

----------------------------------------------------------------------------
(* Migrations and initialization.                                          *)

ApplyIdx == 1..Len(applyLog)

\* The ids the ledger of database db holds.
LedgerOf(db) == {id \in MigrationIds : LedgerRow(id) \in db}

\* C11: in every applyMigrations call the up scripts run in strictly ascending
\* id order, each for a migration the ledger did not hold, and a call that
\* returns has run the up script of every migration of the list that was not
\* in the ledger, whatever the order of the list.
C11_AscendingIdOrder ==
  /\ \A i, j \in 1..Len(upLog) :
        (i < j /\ upLog[i].session = upLog[j].session) => upLog[i].id < upLog[j].id
  /\ \A i \in 1..Len(upLog) : ~upLog[i].applied
  /\ \A n \in ApplyIdx :
        applyLog[n].ok =>
          {applyLog[n].ups[i].id : i \in 1..Len(applyLog[n].ups)}
            = {config.migrations[i].id : i \in 1..Len(config.migrations)}
                \ LedgerOf(applyLog[n].before)

\* A list given in descending id order, both of its up scripts run.
C11_Witness ==
  /\ Len(config.migrations) >= 2
  /\ config.migrations[1].id > config.migrations[2].id
  /\ \E n \in ApplyIdx : applyLog[n].ok /\ Len(applyLog[n].ups) >= 2

\* C12 as stated: every call of applyMigrations after the first runs no up
\* script and leaves the database as the call before it left it.
C12_SecondCallNoOp ==
  \A n \in ApplyIdx : n > 1 =>
    /\ applyLog[n].ups = <<>>
    /\ applyLog[n].after = applyLog[n - 1].after

\* C12: a call of applyMigrations that follows a call which returned without
\* error, with the same list on the same database, runs no up script, inserts
\* no ledger row and returns; and after any call, failed or not, a further
\* call leaves the schema and the ledger as the call before it left them.
C12_Idempotent ==
  \A n \in ApplyIdx : n > 1 =>
    /\ applyLog[n].after = applyLog[n - 1].after
    /\ applyLog[n].before = applyLog[n - 1].after
    /\ applyLog[n - 1].ok =>
         (applyLog[n].ups = <<>> /\ applyLog[n].ok /\ applyLog[n].after = applyLog[n].before)

\* Two migrations were applied by a first call, and a second call has ended.
C12_Witness ==
  /\ Len(applyLog) >= 2
  /\ applyLog[1].ok
  /\ Len(applyLog[1].ups) >= 2

C14_InitFails ==
  \A n \in ApplyIdx :
    LET a == applyLog[n]
    IN (a.session = reloads /\ ~a.ok) =>
         /\ ~provider.ready
         /\ initPromise.state \in {"pending", "rejected"}
         /\ initPromise.state = "pending" =>
               \E i \in 1..Len(outbox) : outbox[i] = [id |-> a.id, res |-> thrownError(a.message)]
         /\ initPromise.state = "rejected" =>
               (initPromise.message = a.message /\ provider.error = a.message)

\* A migration failed, init() has rejected and the provider holds the error.
C14_Witness ==
  /\ \E n \in ApplyIdx : applyLog[n].session = reloads /\ ~applyLog[n].ok
  /\ initPromise.state = "rejected"
  /\ provider.error # ""
  /\ ~provider.ready

----------------------------------------------------------------------------
(* The invalidation bus.                                                   *)

\* The positions of a sequence whose element satisfies a test.
Where(q, Test(_)) == {i \in 1..Len(q) : Test(q[i])}

\* The messages of this client's publish n that wait in peer p's channel,
\* and the notifications peer p made from it.
InFlightTo(p, n) == Where(channel[p], LAMBDA m : m.origin = 0 /\ m.n = n)
TakenBy(p, n) == Where(peerLog, LAMBDA r : r.peer = p /\ r.origin = 0 /\ r.n = n)

\* C15: when this client publishes a changed-table set with broadcast on,
\* every peer gets exactly one message with that set and invokes its handlers
\* with it; the client's own handlers are invoked exactly once for the publish
\* and no message of the client's own comes back to it; a context that
\* receives a set notifies with broadcast off, so the channel only carries
\* messages sent by their origin.
C15_PeerBroadcast ==
  /\ \A n \in 1..Len(invalidations) :
       invalidations[n].broadcast =>
         /\ \A p \in Peers :
              /\ Cardinality(InFlightTo(p, n)) + Cardinality(TakenBy(p, n)) = 1
              /\ \A i \in InFlightTo(p, n) : channel[p][i].tables = invalidations[n].tables
              /\ \A i \in TakenBy(p, n) :
                   /\ peerLog[i].tables = invalidations[n].tables
                   /\ peerLog[i].handlers = peers[p].handlers
         /\ \A h \in Range(invalidations[n].handlers) :
              Cardinality(Where(handled, LAMBDA x : x.handler = h /\ x.n = n)) = 1
  /\ \A i \in 1..Len(incoming) : incoming[i].origin # 0 /\ incoming[i].from = incoming[i].origin
  /\ \A p \in Peers : \A i \in 1..Len(channel[p]) :
       channel[p][i].from = channel[p][i].origin /\ channel[p][i].origin # p
  /\ \A n \in 1..Len(invalidations) :
       invalidations[n].call = 0 => ~invalidations[n].broadcast
  /\ \A i \in 1..Len(peerLog) :
       peerLog[i].origin # peerLog[i].peer => ~peerLog[i].broadcast
  /\ Cardinality(Where(invalidations, LAMBDA x : x.call = 0)) + Len(incoming)
       = Cardinality(Where(peerLog, LAMBDA r : r.origin = r.peer))

\* A publish of this client with a handler registered has been taken by every
\* peer, and the client has taken a peer's publish with a handler registered.
C15_Witness ==
  /\ \E n \in 1..Len(invalidations) :
       /\ invalidations[n].broadcast
       /\ invalidations[n].handlers # <<>>
       /\ \A p \in Peers : TakenBy(p, n) # {}
  /\ \E m \in 1..Len(invalidations) :
       invalidations[m].call = 0 /\ invalidations[m].handlers # <<>>

\* The handlers registered through onInvalidate and not unsubscribed since.
Subscribed == registered \ unsubscribed

\* The invocations a step adds to the record of handler invocations.
NewlyHandled == SubSeq(handled', Len(handled) + 1, Len(handled'))

\* C16: a notification invokes every handler that is registered and not
\* unsubscribed exactly once, with the changed tables of the notification,
\* and invokes no other handler; in particular a handler is not invoked
\* after its unsubscribe function was called.  Handlers are invoked by
\* notifications only.
C16_EveryHandlerOnce ==
  [][/\ Len(invalidations') > Len(invalidations) =>
          /\ Len(invalidations') = Len(invalidations) + 1
          /\ \A h \in Subscribed :
               Cardinality(Where(NewlyHandled, LAMBDA x : x.handler = h)) = 1
          /\ \A i \in 1..Len(NewlyHandled) :
               /\ NewlyHandled[i].handler \in Subscribed
               /\ NewlyHandled[i].tables = invalidations'[Len(invalidations')].tables
               /\ NewlyHandled[i].n = Len(invalidations')
     /\ Len(invalidations') = Len(invalidations) => handled' = handled
    ]_vars

\* A handler was invoked by one notification, then unsubscribed, and a later
\* notification invoked the handler that was still registered but not it.
C16_Witness ==
  \E h \in unsubscribed, n1, n2 \in 1..Len(invalidations) :
    /\ n1 < n2
    /\ Where(handled, LAMBDA x : x.handler = h /\ x.n = n1) # {}
    /\ Where(handled, LAMBDA x : x.handler = h /\ x.n = n2) = {}
    /\ Where(handled, LAMBDA x : x.handler # h /\ x.n = n2) # {}

Execs == {c \in CallIds : calls[c].kind = "exec"}

\* The tables named by the texts passed to exec, "*" for a text that names
\* none.
ChangedBy(sql) == IF sql = InsOrder THEN {"orders"} ELSE {"*"}

\* C17: an exec that resolved has fired exactly one invalidation, with the
\* tables of its SQL (or "*"), with broadcast on, handed to the handlers
\* registered at that time and posted to every peer, and only once the
\* execResult for its request had arrived; an exec that is rejected or still
\* waits has fired none.
C17_ExecInvalidates ==
  \A c \in Execs :
    /\ calls[c].result.status = "resolved" =>
         /\ Cardinality(NotifiedBy(c)) = 1
         /\ \A n \in NotifiedBy(c) :
              /\ invalidations[n].tables = ChangedBy(calls[c].sql)
              /\ invalidations[n].broadcast
              /\ \A h \in Range(invalidations[n].handlers) :
                   Cardinality(Where(handled, LAMBDA x : x.handler = h /\ x.n = n
                                                         /\ x.tables = ChangedBy(calls[c].sql))) = 1
              /\ [tables |-> ChangedBy(calls[c].sql)] \in Range(posted)
              /\ \A p \in Peers : InFlightTo(p, n) # {} \/ TakenBy(p, n) # {}
    /\ calls[c].result.status # "resolved" => NotifiedBy(c) = {}
    /\ NotifiedBy(c) # {} =>
         /\ got[calls[c].awaiting].res.type = "execResult"
         /\ calls[c].result.status = "resolved"

\* One exec resolved and its invalidation reached a handler and a peer;
\* another exec was rejected.
C17_Witness ==
  /\ \E c \in Execs :
       /\ calls[c].sql = InsOrder
       /\ calls[c].result.status = "resolved"
       /\ \E n \in NotifiedBy(c) :
            /\ invalidations[n].handlers # <<>>
            /\ \E p \in Peers : TakenBy(p, n) # {}
  /\ \E c \in Execs : calls[c].result.status = "rejected"

----------------------------------------------------------------------------
(* Subscriptions.                                                          *)

\* The changed tables and the dependencies have a table in common, "*" on
\* either side standing for every table.
Intersects(changedTables, tables) ==
  \/ changedTables \cap tables # {}
  \/ "*" \in changedTables
  \/ "*" \in tables

\* The query requests subscription s has sent: the one of its mount and one
\* for each re-run.
RequestsOf(s) == {i \in Ids : sent[i] = [call |-> runCont(s), type |-> "query"]}

\* C18: the handler of a subscription, invoked with the changed tables of a
\* notification, sends the subscription's query again exactly when the
\* changed tables intersect its dependencies, "*" on either side counting as
\* an intersection; otherwise it sends nothing.
C18_RerunIffRelevant ==
  [][(todo # <<>> /\ todo' = Tail(todo)) =>
       LET x == Head(todo)
           s == x.handler
       IN /\ Intersects(x.tables, subs[s].tables) =>
               /\ lastId' = lastId + 1
               /\ sent'[lastId'] = [call |-> runCont(s), type |-> "query"]
               /\ inbox' = Append(inbox, [id |-> lastId',
                                          req |-> Req("query", subs[s].sql, <<>>)])
          /\ ~Intersects(x.tables, subs[s].tables) =>
               /\ lastId' = lastId
               /\ sent' = sent
               /\ inbox' = inbox
    ]_vars

\* A subscription whose handler was invoked for a notification that does not
\* touch its dependencies and for one that does, and that has sent its query
\* twice: when it mounted and for the second notification.
C18_Witness ==
  \E s \in HandlerIds :
    /\ subs[s].mounted
    /\ todo = <<>>
    /\ "*" \notin subs[s].tables
    /\ \E i, j \in 1..Len(handled) :
         /\ handled[i].handler = s /\ handled[j].handler = s
         /\ ~Intersects(handled[i].tables, subs[s].tables)
         /\ handled[j].tables \cap subs[s].tables # {}
    /\ Cardinality(Where(handled, LAMBDA x : x.handler = s)) = 2
    /\ Cardinality(RequestsOf(s)) = 2

RunIdx == 1..Len(runLog)

\* The executions of the query of the subscription of execution i that
\* completed before it and delivered a result.
DeliveredBefore(i) ==
  {j \in 1..(i - 1) : runLog[j].sub = runLog[i].sub /\ runLog[j].ok /\ runLog[j].update}

\* The fingerprint of the result last delivered before execution i, "" when
\* none was.
LastDeliveredBefore(i) ==
  IF DeliveredBefore(i) = {} THEN ""
  ELSE runLog[CHOOSE j \in DeliveredBefore(i) : \A k \in DeliveredBefore(i) : k <= j].hash

\* Executions i and j of one subscription's query with none between them.
Consecutive(i, j) ==
  /\ i < j
  /\ runLog[i].sub = runLog[j].sub
  /\ \A k \in (i + 1)..(j - 1) : runLog[k].sub # runLog[i].sub

\* C19: of two consecutive executions of a subscription's query that give
\* results with the same fingerprint, the second delivers no update; an
\* execution that gives a result delivers it exactly when its fingerprint
\* differs from that of the result delivered last, and the data held is the
\* data of that fingerprint.
C19_SameFingerprintNoUpdate ==
  /\ \A i, j \in RunIdx :
       (Consecutive(i, j) /\ runLog[i].ok /\ runLog[j].ok /\ runLog[i].hash = runLog[j].hash)
         => ~runLog[j].update
  /\ \A i \in RunIdx :
       (runLog[i].ok /\ runLog[i].mounted)
         => (runLog[i].update <=> runLog[i].hash # LastDeliveredBefore(i))
  /\ \A s \in HandlerIds :
       subs[s].lastHash # "" => subs[s].lastHash = stringify(subs[s].data, subs[s].single)

\* A subscription's query ran twice in a row with the same result, and the
\* second execution delivered nothing.
C19_Witness ==
  \E i, j \in RunIdx :
    /\ Consecutive(i, j)
    /\ runLog[i].ok /\ runLog[j].ok
    /\ runLog[i].update
    /\ runLog[i].hash = runLog[j].hash
    /\ ~runLog[j].update

\* The error a failing execution of the query of subscription s ends with:
\* the engine's for a table that does not exist, else options.validate's.
UnderlyingError(s) ==
  IF subs[s].sql = SelectMissing THEN "no such table: customers" ELSE "validation failed"

\* C20: an execution of a subscription's query that fails, in the query or
\* in options.validate, sets the status to error with the error it failed
\* with and throws nothing; the exec whose invalidation caused the
\* re-execution resolves all the same.
C20_FailureBecomesError ==
  /\ \A i \in RunIdx :
       (~runLog[i].ok /\ runLog[i].mounted) =>
         /\ runLog[i].status = "error"
         /\ runLog[i].e = UnderlyingError(runLog[i].sub)
         /\ runLog[i].update
         /\ ~runLog[i].thrown
  /\ \A i \in RunIdx : ~runLog[i].thrown
  /\ \A s \in HandlerIds : subs[s].status = "error" => subs[s].error = UnderlyingError(s)
  /\ \A c \in Execs :
       (calls[c].pc = "done" /\ got[calls[c].awaiting].res.type = "execResult")
         => calls[c].result.status = "resolved"

\* A subscription delivered a result, an exec resolved, and the re-execution
\* its invalidation caused failed in options.validate: the subscription is in
\* status error with that error.
C20_Witness ==
  \E i, j \in RunIdx, c \in Execs :
    /\ Consecutive(i, j)
    /\ runLog[i].ok
    /\ ~runLog[j].ok /\ runLog[j].e = "validation failed"
    /\ calls[c].result.status = "resolved"
    /\ subs[runLog[j].sub].status = "error"
    /\ subs[runLog[j].sub].error = "validation failed"

\* The last execution of the query of subscription s that has ended.
LastRun(s) ==
  LET runs == {i \in RunIdx : runLog[i].sub = s}
  IN CHOOSE i \in runs : \A j \in runs : j <= i

\* C21: whenever the execution of a subscription's query that ended last
\* succeeded, the subscription's status is ready and its error is null, also
\* after a failure and with the rows that were delivered last.
C21_ReadyAfterSuccess ==
  \A s \in HandlerIds :
    (subs[s].mounted /\ (\E i \in RunIdx : runLog[i].sub = s) /\ runLog[LastRun(s)].ok)
      => (subs[s].status = "ready" /\ subs[s].error = "")

\* C22: the dependency set of a mounted subscription is the one its first
\* evaluation gave it and never changes, whatever later evaluations carry.
C22_DependenciesFixed ==
  [][\A s \in HandlerIds : subs[s].mounted => subs'[s].tables = subs[s].tables]_vars

----------------------------------------------------------------------------
(* The correlation channel, continued.                                     *)

\* The client has handled every event the worker left behind.
NothingLeftToHandle == outbox = <<>> /\ worker.onerror # "due"

\* C23: once the worker has ended and the client has handled every response
\* and the error event it left behind, no request is left pending: each call
\* that was waiting has been rejected.
C23_RejectedWhenWorkerEnds ==
  (~worker.alive /\ NothingLeftToHandle) =>
    /\ \A i \in Ids : pending[i] = 0
    /\ \A c \in CallIds : calls[c].kind # "none" => calls[c].result.status # "none"

\* Some call the engine made for request i failed.
EngineFailed(i) == \E k \in 1..Len(engineLog) : engineLog[k].id = i /\ ~engineLog[k].ok

\* The promise of request i was settled once, with the response the worker
\* posted for it: rejected when the engine failed or the worker does not know
\* the type, resolved otherwise.
SettledAs(i) ==
  /\ invoked[i] = 1
  /\ got[i].id = i
  /\ IF sent[i].call = InitCont
     THEN initPromise.state = IF got[i].res.type = "error" THEN "rejected" ELSE "resolved"
     ELSE /\ calls[sent[i].call].pc = "done"
          /\ calls[sent[i].call].result.res.type = got[i].res.type
          /\ calls[sent[i].call].result.res.message = got[i].res.message
          /\ calls[sent[i].call].result.status =
               IF EngineFailed(i) \/ sent[i].type \in {"export", "import"}
               THEN "rejected" ELSE "resolved"

\* C24: every request sent to the live worker, of whichever type, is
\* eventually settled, and settled according to the response the worker made
\* from the engine's outcome.
C24_EveryRequestSettles == \A i \in Ids : (sent[i].type # "none") ~> SettledAs(i)

\* An initialisation and a transaction were both sent and settled, the
\* transaction with success.
C24_Witness ==
  \E i, j \in Ids :
    /\ sent[i].type = "init" /\ SettledAs(i)
    /\ sent[j].type = "transaction" /\ SettledAs(j)
    /\ calls[sent[j].call].result.status = "resolved"

\* C25: the id of a new request differs from every outstanding id, so that
\* registering it never replaces the continuation of another pending request.
C25_IdsUnique ==
  [][\A i \in Ids : pending[i] # 0 => pending'[i] \in {0, pending[i]}]_vars

\* C26: a response of type error rejects the promise of its request with an
\* error that carries the message of the response and, when the response has
\* one, its trace.
C26_ErrorCarriesTrace ==
  \A k \in Ids :
    (invoked[k] > 0 /\ got[k].res.type = "error" /\ sent[k].call \in CallIds
       /\ calls[sent[k].call].pc = "done" /\ calls[sent[k].call].awaiting = k) =>
      /\ calls[sent[k].call].result.status = "rejected"
      /\ calls[sent[k].call].result.res.message = got[k].res.message
      /\ calls[sent[k].call].result.res.stack = got[k].res.stack

\* Request k was sent and its response has not been processed.
Outstanding(k) == sent[k].type # "none" /\ invoked[k] = 0

\* C27: the pending table holds exactly the ids of the requests sent whose
\* response has not been processed: the entry is there before the worker can
\* see the request, it is removed once, when the response is processed, and
\* the table is empty once every response has been delivered.
C27_PendingExact ==
  /\ \A k \in Ids : pending[k] # 0 <=> Outstanding(k)
  /\ \A k \in Ids : invoked[k] <= 1
  /\ \A n \in 1..Len(inbox) : pending[inbox[n].id] # 0
  /\ (inbox = <<>> /\ wk = {} /\ outbox = <<>>) => \A k \in Ids : pending[k] = 0

\* Two requests were sent; the response to one has been processed and its
\* entry is gone, the other is still with the worker and its entry is there.
C27_Witness ==
  \E j, k \in Ids :
    /\ sent[j].type # "none" /\ invoked[j] = 1 /\ pending[j] = 0
    /\ Outstanding(k) /\ pending[k] # 0
    /\ \E n \in 1..Len(inbox) : inbox[n].id = k

\* The response to request k has been produced.
Produced(k) ==
  \/ \E n \in 1..Len(outbox) : outbox[n].id = k
  \/ \E env \in seen : env.id = k

\* C28: of two requests sent in the order A then B, A's statements are all
\* executed before any of B's, and A's response is produced before B's.
C28_RequestsInOrder ==
  \A a, b \in Ids :
    (a < b /\ sent[a].type # "none" /\ sent[b].type # "none") =>
      /\ Produced(b) => Produced(a)
      /\ \A m, n \in LogIdx : (engineLog[m].id = b /\ engineLog[n].id = a) => n < m

(* The extraction of dependencies. *)

\* The aliases the WITH clause of a statement introduces, lower-cased.
Aliases(st) == {toLowerCase(st.ctes[i].name) : i \in 1..Len(st.ctes)}

\* The names a statement has after FROM, JOIN, UPDATE, INTO or DELETE FROM,
\* lower-cased.
References(st) ==
  ({toLowerCase(st.ctes[i].from) : i \in 1..Len(st.ctes)}
     \cup {toLowerCase(st.x), toLowerCase(st.y)}) \ {""}

\* C29: every name extractTables returns is lower-cased, and none is an alias
\* the statement introduces in its WITH clause, however many expressions the
\* clause declares and whether or not it is recursive.
C29_LowerCasedNoAlias ==
  extracted.done =>
    \A n \in extracted.result.tables :
      n = toLowerCase(n) /\ n \notin Aliases(statement)

\* C30: extractTables returns null, never an empty set, exactly when the
\* statement has no reference other than its aliases, and the set of all such
\* references otherwise.
C30_NullOrAllReferences ==
  extracted.done =>
    /\ extracted.result # TableSet({})
    /\ extracted.result =
         IF References(statement) \ Aliases(statement) = {} THEN Null
         ELSE TableSet(References(statement) \ Aliases(statement))

\* The base tables a statement with comments and literals reads.
Reads(t) == {toLowerCase(t.x), toLowerCase(t.y)}

\* C31: extractTables never under-approximates: the result is null or holds
\* every table the statement reads, and comments and the contents of literals
\* add no name to it.
C31_NeverUnderApproximates ==
  extracted.done =>
    \/ extracted.result = Null
    \/ extracted.result.tables = Reads(statement)

(* Initialisation, continued. *)

\* The worker has answered ready to the init request of this page load.
AnsweredReady ==
  \/ \E n \in 1..Len(outbox) : sent[outbox[n].id].type = "init" /\ outbox[n].res = ready
  \/ provider.ready

\* C32: every pragma setting of the client configuration has been applied to
\* the engine when the worker answers ready.
C32_PragmasApplied == AnsweredReady => config.pragma \subseteq engine.pragmas

\* The init handler posts ready in this step.
InitAnswersReady ==
  /\ initHandler.pc # "none"
  /\ outbox' = Append(outbox, [id |-> initHandler.id, res |-> ready])

\* The engine call of a request that this step adds to the log, if it adds
\* one, executed nothing: it failed.
NoStatementExecuted ==
  \A n \in 1..Len(engineLog') : n > Len(engineLog) => ~engineLog'[n].ok

\* C33: the worker answers ready to an init request only when every migration
\* of the request is committed, and from the moment it takes the request to
\* that answer the engine executes no statement of another request.
C33_InitUndisturbed ==
  [][/\ InitAnswersReady =>
          /\ ~engine'.txActive
          /\ initHandler.defined =>
               \A i \in 1..Len(config.migrations) :
                 LedgerRow(config.migrations[i].id) \in engine'.db
     /\ initHandler.pc # "none" => NoStatementExecuted
    ]_vars

\* The init request was sent first and answered ready with its migration
\* committed, and a request sent after it was taken while the engine was
\* loading and failed.
C33_Witness ==
  \E i, j \in Ids :
    /\ i < j /\ sent[i].type = "init" /\ sent[j].type \in {"query", "exec"}
    /\ EngineFailed(j)
    /\ got[i].res = ready
    /\ config.migrations # <<>>
    /\ \A n \in 1..Len(config.migrations) : LedgerRow(config.migrations[n].id) \in engine.db

\* The worker has nothing left to do.
WorkerIdle == inbox = <<>> /\ wk = {} /\ initHandler.pc = "none"

\* The envelopes this step adds to the outbox.
NewlyPosted == {outbox'[n] : n \in (Len(outbox) + 1)..Len(outbox')}

\* C34: for every envelope that carries a request the worker posts exactly
\* one response envelope with its id, a result or an error, whatever the type
\* of the request and whether or not the engine call throws; for an envelope
\* without a request it posts none.
C34_OneResponsePerRequest ==
  [][/\ Len(outbox') > Len(outbox) =>
          /\ Len(outbox') = Len(outbox) + 1
          /\ \A env \in NewlyPosted :
               /\ env.id \in Ids /\ sent[env.id].type # "none"
               /\ env.res.type \in {"ready", "queryResult", "execResult", "error"}
               /\ ~Produced(env.id)
     /\ WorkerIdle' => \A k \in Ids : sent'[k].type # "none" => Produced(k)'
    ]_vars

\* The worker has taken an envelope without a request and answered the
\* requests of an unknown type and of a transaction whose statement failed.
C34_Witness ==
  /\ WorkerIdle
  /\ \E k \in Ids : sent[k].type \in {"export", "import"} /\ Produced(k)
  /\ \E k \in Ids : sent[k].type = "transaction" /\ Produced(k) /\ EngineFailed(k)

\* The init requests sent to the worker.
InitRequests == {k \in Ids : sent[k].type = "init"}

\* The calls of client.init() beside the provider's.
InitCalls == {c \in CallIds : calls[c].kind = "init"}

\* C35: however often and whenever client.init() is called, at most one init
\* request is sent to the worker, and every caller receives the outcome of
\* that request: none is left waiting once its response is processed, and
\* each is resolved when the response is ready and rejected with its message
\* when it is an error.
C35_InitOnce ==
  /\ Cardinality(InitRequests) <= 1
  /\ (InitCalls # {} \/ initPromise.state # "null") => Cardinality(InitRequests) = 1
  /\ \A k \in InitRequests, c \in InitCalls :
       /\ invoked[k] = 0 => calls[c].pc = "awaitInit"
       /\ invoked[k] = 1 =>
            /\ calls[c].pc = "done"
            /\ calls[c].result =
                 IF got[k].res.type = "error" THEN Rejected(got[k].res.message)
                 ELSE Resolved(NoRes, 0)

\* init() was called twice beside the provider, the request failed, and
\* the provider and both callers hold the failure.
C35_Witness ==
  \E k \in InitRequests :
    /\ invoked[k] = 1 /\ got[k].res.type = "error"
    /\ Cardinality(InitCalls) = 2
    /\ \A c \in InitCalls : calls[c].result.status = "rejected"
    /\ provider.error # ""

(* Overlapping transactions. *)

\* Calls c and d overlapped: d sent its batch after the callback of c had
\* sent its query and before c sent its own batch.
Overlapped(c, d) ==
  /\ c # d
  /\ BatchOf(c) # 0 /\ BatchOf(d) # 0
  /\ \E k \in Ids : /\ sent[k] = [call |-> c, type |-> "query"]
                    /\ k < BatchOf(d)
                    /\ BatchOf(d) < BatchOf(c)

\* C36: when transaction() calls overlap, the batch each one submits is the
\* list of the statements passed to its own tx.exec, in call order: the
\* request carries that list, and the engine runs for it those statements and
\* no statement staged by another call.
C36_OwnStatementsOnly ==
  \A c \in Transactions :
    /\ \A i \in 1..Len(inbox) :
         (inbox[i].req.type = "transaction" /\ inbox[i].id = BatchOf(c))
           => inbox[i].req.statements = calls[c].txExecs
    /\ \A h \in wk :
         h.id = BatchOf(c) => h.statements = calls[c].txExecs
    /\ \A t \in txDone :
         (t.id = BatchOf(c) /\ t.committed) => Executed(t.id) = calls[c].txExecs

\* Two transaction() calls overlapped, staged different statements, and both
\* batches have committed.
C36_Witness ==
  \E c, d \in Transactions :
    /\ Overlapped(c, d)
    /\ Committed(c) /\ Committed(d)
    /\ calls[c].txExecs # <<>> /\ calls[d].txExecs # <<>>
    /\ calls[c].txExecs # calls[d].txExecs

(* Handlers that throw. *)

\* The engine has committed the write of call c: the statement of its exec
\* request succeeded, or the batch of its transaction was committed.
WriteCommitted(c) ==
  \/ /\ calls[c].kind = "exec"
     /\ \E k \in Ids, i \in LogIdx :
          /\ sent[k] = [call |-> c, type |-> "exec"]
          /\ engineLog[i].id = k /\ engineLog[i].ok
  \/ calls[c].kind = "transaction" /\ Committed(c)

\* C38: once the engine has committed the write of an exec or a transaction
\* and the call has ended, the call has resolved, every handler registered at
\* that time has been called with the notification of the call, and every
\* notification has been put on the broadcast channel, also when a handler
\* throws.
C38_PublishedWhateverHandlersDo ==
  /\ \A c \in CallIds :
       (calls[c].pc = "done" /\ WriteCommitted(c))
         => /\ calls[c].result.status = "resolved"
            /\ \E n \in NotifiedBy(c) :
                 \A h \in Range(invalidations[n].handlers) :
                   Where(handled, LAMBDA x : x.handler = h /\ x.n = n) # {}
  /\ Len(posted) = Cardinality({i \in 1..Len(invalidations) : invalidations[i].broadcast})

(* Subscriptions after a write. *)

\* The engine has committed the client's write to the table orders.
OrderWritten ==
  \E i \in LogIdx : engineLog[i].sql = InsOrder /\ engineLog[i].ok

\* Subscription s is mounted and depends on the table orders or on "*".
DependsOnOrders(s) ==
  subs[s].mounted /\ (subs[s].tables \cap {"orders", "*"} # {})

\* Subscription s shows what its query gives on the database as it is: the
\* data, or status error when the validator rejects the rows.
Current(s) ==
  LET r == query(subs[s].sql, engine)
  IN IF subs[s].validate /\ validateThrows(r.rows)
     THEN subs[s].status = "error"
     ELSE subs[s].data = dataOf(r.rows, subs[s].single)

\* C37: after the client's write to orders has committed, with no write
\* after it, every mounted subscription that depends on orders or on "*"
\* eventually holds the data its query returns on the database after the
\* commit.
C37_EventuallyCurrent ==
  \A s \in HandlerIds : (OrderWritten /\ DependsOnOrders(s)) ~> Current(s)

(* Subscriptions, the provider and unmounting. *)

\* The step sends a query request of subscription s.
SubSends(s) ==
  \E k \in Ids : sent[k].call # runCont(s) /\ sent'[k].call = runCont(s)

\* C39: a subscription sends a query request only when init() has resolved
\* and the provider is ready, and a handler called by an invalidation
\* notification sends one only for a subscription that is mounted and whose
\* handler is registered: none after the unmount.
C39_QueriesOnlyWhenReadyAndMounted ==
  [][\A s \in HandlerIds :
       SubSends(s) =>
         /\ provider.ready
         /\ initPromise.state = "resolved"
         /\ todo # <<>> => (subs[s].mounted /\ s \in Range(invalidationHandlers))]_vars

\* A component rendered before the provider was ready, sent its first query
\* once it was, and unmounted; a write of the client sent after that query
\* has then published tables it depends on, and its handler was not called.
C39_Witness ==
  \E s \in HandlerIds, c \in CallIds, n \in 1..Len(invalidations), kq, ke \in Ids :
    /\ subs[s].waited /\ ~subs[s].mounted /\ s \in unsubscribed
    /\ sent[kq].call = runCont(s)
    /\ sent[ke] = [call |-> c, type |-> "exec"]
    /\ kq < ke
    /\ invalidations[n].call = c
    /\ isRelevant(invalidations[n].tables, subs[s].tables)
    /\ s \notin Range(invalidations[n].handlers)
    /\ Where(handled, LAMBDA x : x.handler = s) = {}

(* Queries and the invalidation bus. *)

\* C40: when client.query ends, with rows or with an error, no notification
\* is fired, no handler is called and nothing is put on the broadcast
\* channel; a notification is fired only by an exec or a transaction whose
\* response is the result of a committed write.
C40_QueriesPublishNothing ==
  [][/\ \A c \in CallIds :
          (calls[c].pc \in {"awaitQuery", "fnQuery"} /\ calls'[c].pc # calls[c].pc)
            => /\ invalidations' = invalidations
               /\ handled' = handled
               /\ posted' = posted
               /\ channel' = channel
     /\ posted' # posted => invalidations' # invalidations
     /\ invalidations' # invalidations
          => LET c == invalidations'[Len(invalidations')].call
             IN /\ calls[c].pc \in {"awaitExec", "awaitTx"}
                /\ got'[calls[c].awaiting].res.type = "execResult"]_vars

\* With a handler registered, a query has returned its rows and another has
\* failed, and nothing has been notified or broadcast.
C40_Witness ==
  /\ invalidationHandlers # <<>>
  /\ \E c, d \in CallIds :
       /\ calls[c].kind = "query" /\ calls[c].pc = "done"
       /\ calls[c].result.status = "resolved"
       /\ calls[d].kind = "query" /\ calls[d].pc = "done"
       /\ calls[d].result.status = "rejected"
  /\ invalidations = <<>>
  /\ handled = <<>>
  /\ posted = <<>>

====
